---- MODULE Spec2Model ----
(***************************************************************************)
(* ClipNest clipboard canvas (ClipboardTab.vue): placement, move, resize,  *)
(* item cap, bounded undo history and the asynchronous paste / file drop   *)
(* ingestion, modelled as a state machine over the component's refs.       *)
(*                                                                         *)
(* Numbers.  Pointer coordinates and item geometry are integers.  The      *)
(* viewport centre is kept in half pixels (clientWidth / 2 may end in .5). *)
(* Math.round(v) is floor(v + 1/2); quotients are kept as exact fractions  *)
(* <<numerator, denominator>> and rounded once, where the code rounds.     *)
(* The rounding error of the IEEE 754 division and product that precede    *)
(* Math.round in the code is not modelled.                                 *)
(*                                                                         *)
(* Time.  Date.now() is a counter that never goes back; two adds may read  *)
(* the same millisecond.  crypto.randomUUID() is a counter of ids issued.  *)
(*                                                                         *)
(* Specifications.  Spec explores the component from the empty canvas;     *)
(* SpecGeom explores move and resize sessions on one image; SpecCap starts *)
(* from a canvas filled by one large drop; SpecHist starts after a long    *)
(* run of pastes and deletes and performs no undo; SpecKeys explores the   *)
(* shortcuts, the copy and the paste outcomes on one image, with the focus *)
(* on the page, on a button or on the pin checkbox of the window header;   *)
(* SpecTabs adds the switch between the tabs and presses with either mouse *)
(* button; SpecHeap keeps the state, the snapshots and the items as        *)
(* objects at addresses, to tell a copy from a shared object; SpecPin is   *)
(* the main process with its preferences file (main.ts and                 *)
(* preferences-store.ts); SpecTasks is TasksTab.vue with its localStorage  *)
(* entry; SpecSize applies normalizeInitialSize to natural sizes; SpecSink  *)
(* is writeClipboardImage of the main process with the clipboard of the    *)
(* operating system.                                                       *)
(***************************************************************************)
EXTENDS Integers, Sequences, FiniteSets, TLC

\* ---------------------------------------------------------------------
\* Program constants (ClipboardTab.vue, lines 15-22)
\* ---------------------------------------------------------------------
CANVAS_WIDTH == 2000
CANVAS_HEIGHT == 2000
MAX_IMAGES == 50
MIN_SIZE == 24
INITIAL_MAX_SIDE == 420
INITIAL_MIN_SIDE == 80
UNDO_LIMIT == 50
PLACEMENT_OFFSET_STEP == 24

HANDLE_DIRECTIONS == {"n", "ne", "e", "se", "s", "sw", "w", "nw"}

\* ---------------------------------------------------------------------
\* Bounds of the exploration
\* ---------------------------------------------------------------------
\* events handled in one run of the interactive specification
MaxSteps == 6
\* pointer events handled in one run of the geometry specification
MaxGeomSteps == 5
\* images of the drop that fills the canvas, and events handled after it
CapPrefill == 50
MaxCapSteps == 5
\* history-worthy actions before a run of the history specification starts,
\* and events handled in the run
HistPrefill == 58
MaxHistSteps == 5
MaxKeySteps == 5
MaxTabSteps == 5
MaxHeapSteps == 6
MaxPinSteps == 5
MaxTaskSteps == 6
MaxSizeSteps == 1
MaxSinkSteps == 3
MaxNaturalSide == 4000
\* file drops decoding at the same time
MaxDrops == 1
\* clipboard reads awaited at the same time
MaxPendingPastes == 1
MaxPendingCopies == 1

\* null of selectedId (item ids start at 1)
NoId == 0
\* null of interaction
NoInteraction == [mode |-> "none"]

\* the heap of the specifications that keep the store by value
NoHeap == [mem |-> << >>]

\* the shell of the specifications of the canvas
NoShell == [tasks |-> << >>]

\* ---------------------------------------------------------------------
\* Arithmetic helpers
\* ---------------------------------------------------------------------
Max2(a, b) == IF a >= b THEN a ELSE b
Min2(a, b) == IF a <= b THEN a ELSE b

\* Math.round of v2 / 2 (v2 counts half pixels): floor(v + 1/2)
roundHalf(v2) == (v2 + 1) \div 2

\* Math.round of n / d, d > 0: floor(n/d + 1/2)
roundDiv(n, d) == (2 * n + d) \div (2 * d)

\* exact fractions <<n, d>>, d > 0
fracLE(p, q) == p[1] * q[2] <= q[1] * p[2]
fracMax(p, q) == IF fracLE(p, q) THEN q ELSE p
fracMin(p, q) == IF fracLE(p, q) THEN p ELSE q

clamp(value, min, max) ==
    IF max < min THEN min ELSE Min2(max, Max2(min, value))

fracClamp(p, lo, hi) ==
    IF ~fracLE(lo, hi) THEN lo ELSE fracMin(hi, fracMax(lo, p))

\* ---------------------------------------------------------------------
\* Sequence helpers
\* ---------------------------------------------------------------------
\* Array.prototype.filter on the items whose id is in keep
filterSeq(s, keep) == SelectSeq(s, LAMBDA item : item.id \in keep)

itemIds(items) == {items[i].id : i \in 1..Len(items)}

hasItem(st, itemId) == itemId \in itemIds(st.items)

getItemById(st, itemId) ==
    st.items[CHOOSE i \in 1..Len(st.items) : st.items[i].id = itemId]

\* { ...target, ...fields }
spread(target, fields) ==
    [f \in DOMAIN target |-> IF f \in DOMAIN fields THEN fields[f] ELSE target[f]]

updateItem(st, itemId, fields) ==
    [st EXCEPT !.items =
        [i \in 1..Len(st.items) |->
            IF st.items[i].id = itemId
            THEN spread(st.items[i], fields)
            ELSE st.items[i]]]

\* ---------------------------------------------------------------------
\* Canvas state store (pure functions of the ClipboardCanvasState record)
\* ---------------------------------------------------------------------
EmptyState ==
    [items |-> << >>, selectedId |-> NoId, nextZIndex |-> 1,
     placementOffsetIndex |-> 0]

\* deepCloneItems copies every item record; records are values here
createSnapshot(st) ==
    [items |-> st.items, selectedId |-> st.selectedId,
     nextZIndex |-> st.nextZIndex,
     placementOffsetIndex |-> st.placementOffsetIndex]

applySnapshot(snapshot) ==
    [items |-> snapshot.items, selectedId |-> snapshot.selectedId,
     nextZIndex |-> snapshot.nextZIndex,
     placementOffsetIndex |-> snapshot.placementOffsetIndex]

\* JSON.stringify of items, nextZIndex, placementOffsetIndex (not selectedId)
toUndoComparable(snapshot) ==
    [items |-> snapshot.items, nextZIndex |-> snapshot.nextZIndex,
     placementOffsetIndex |-> snapshot.placementOffsetIndex]

\* variant: a change of the selection alone counts as a change
isUndoTargetChangedWithSelection(before, after) == before # after

isUndoTargetChanged(before, after) ==
    toUndoComparable(before) # toUndoComparable(after)

\* variant: a full stack keeps its oldest entries
pushUndoKeepOldest(stack, snapshot) ==
    LET appended == Append(stack, createSnapshot(snapshot))
    IN  IF Len(appended) > UNDO_LIMIT
        THEN SubSeq(appended, 1, UNDO_LIMIT)
        ELSE appended

pushUndo(stack, snapshot) ==
    LET appended == Append(stack, createSnapshot(snapshot))
    IN  IF Len(appended) > UNDO_LIMIT
        THEN SubSeq(appended, Len(appended) - UNDO_LIMIT + 1, Len(appended))
        ELSE appended

maxZIndex(items) ==
    IF items = << >> THEN 0
    ELSE LET zs == {items[i].zIndex : i \in 1..Len(items)} \cup {0}
         IN  CHOOSE z \in zs : \A o \in zs : o <= z

\* variant: raises the item unless it is strictly above every item
bringToFrontStrict(st, itemId) ==
    IF ~hasItem(st, itemId) THEN st
    ELSE IF getItemById(st, itemId).zIndex > maxZIndex(st.items) THEN st
    ELSE updateItem([st EXCEPT !.nextZIndex = st.nextZIndex + 1],
                    itemId, [zIndex |-> st.nextZIndex])

\* variant: the raised item takes the counter's value and the counter stays
bringToFrontKeepCounter(st, itemId) ==
    IF ~hasItem(st, itemId) THEN st
    ELSE IF getItemById(st, itemId).zIndex >= maxZIndex(st.items) THEN st
    ELSE updateItem(st, itemId, [zIndex |-> st.nextZIndex])

bringToFront(st, itemId) ==
    IF ~hasItem(st, itemId) THEN st
    ELSE IF getItemById(st, itemId).zIndex >= maxZIndex(st.items) THEN st
    ELSE updateItem([st EXCEPT !.nextZIndex = st.nextZIndex + 1],
                    itemId, [zIndex |-> st.nextZIndex])

\* variant: the pressed item is selected where it stands
selectItemInPlace(st, itemId) == [st EXCEPT !.selectedId = itemId]

selectItem(st, itemId) ==
    bringToFront([st EXCEPT !.selectedId = itemId], itemId)

\* variant: the ids of the k items created last
RECURSIVE newestIds(_, _)
newestIds(items, k) ==
    IF k = 0 \/ items = << >> THEN {}
    ELSE LET i == CHOOSE i \in 1..Len(items) :
                     \A j \in 1..Len(items) :
                         /\ items[i].createdAt >= items[j].createdAt
                         /\ j > i => items[j].createdAt < items[i].createdAt
         IN  {items[i].id} \cup newestIds(SubSeq(items, 1, i - 1) \o
                                          SubSeq(items, i + 1, Len(items)), k - 1)

\* ids of the first k items of a stable sort by createdAt ascending
RECURSIVE oldestIds(_, _)
oldestIds(items, k) ==
    IF k = 0 \/ items = << >> THEN {}
    ELSE LET i == CHOOSE i \in 1..Len(items) :
                     /\ \A j \in 1..Len(items) :
                            items[i].createdAt <= items[j].createdAt
                     /\ \A j \in 1..(i - 1) :
                            items[j].createdAt > items[i].createdAt
             rest == [j \in 1..(Len(items) - 1) |->
                        IF j < i THEN items[j] ELSE items[j + 1]]
         IN  {items[i].id} \cup oldestIds(rest, k - 1)

\* variant: the limit is enforced one item late
enforceImageLimitLate(st) ==
    IF Len(st.items) <= MAX_IMAGES + 1 THEN st
    ELSE [st EXCEPT !.items = Tail(st.items)]

enforceImageLimit(st) ==
    IF Len(st.items) <= MAX_IMAGES THEN st
    ELSE LET overflow == Len(st.items) - MAX_IMAGES
             removeIds == oldestIds(st.items, overflow)
         IN  [st EXCEPT
                !.items = filterSeq(st.items, itemIds(st.items) \ removeIds),
                !.selectedId = IF st.selectedId # NoId /\ st.selectedId \in removeIds
                               THEN NoId ELSE st.selectedId]

\* variant: a large image is scaled down, a small one is not scaled up
normalizeInitialSizeDownOnly(naturalWidth, naturalHeight) ==
    LET width == Max2(1, naturalWidth)
        height == Max2(1, naturalHeight)
        longest == Max2(width, height)
        scale == IF longest > INITIAL_MAX_SIDE THEN <<INITIAL_MAX_SIDE, longest>>
                 ELSE <<1, 1>>
    IN  [width |-> Max2(MIN_SIZE, roundDiv(width * scale[1], scale[2])),
         height |-> Max2(MIN_SIZE, roundDiv(height * scale[1], scale[2]))]

normalizeInitialSize(naturalWidth, naturalHeight) ==
    LET width == Max2(1, naturalWidth)
        height == Max2(1, naturalHeight)
        longest == Max2(width, height)
        scale == IF longest > INITIAL_MAX_SIDE THEN <<INITIAL_MAX_SIDE, longest>>
                 ELSE IF longest < INITIAL_MIN_SIDE THEN <<INITIAL_MIN_SIDE, longest>>
                 ELSE <<1, 1>>
    IN  [width |-> Max2(MIN_SIZE, roundDiv(width * scale[1], scale[2])),
         height |-> Max2(MIN_SIZE, roundDiv(height * scale[1], scale[2]))]

\* centre of the visible part of the canvas, in half pixels
getViewportCenter(vp) ==
    [x2 |-> 2 * vp.scrollLeft + vp.clientWidth,
     y2 |-> 2 * vp.scrollTop + vp.clientHeight]

isOutOfBounds(x, y, width, height) ==
    x < 0 \/ y < 0 \/ x + width > CANVAS_WIDTH \/ y + height > CANVAS_HEIGHT

\* calc(offsetIndex) of resolveInitialPlacement
calcPlacement(vp, width, height, offsetIndex) ==
    LET center == getViewportCenter(vp)
    IN  [x |-> roundHalf(center.x2 - width + 2 * offsetIndex * PLACEMENT_OFFSET_STEP),
         y |-> roundHalf(center.y2 - height + 2 * offsetIndex * PLACEMENT_OFFSET_STEP)]

\* variant: the offset keeps growing when the candidate leaves the canvas
resolveInitialPlacementNoReset(st, vp, width, height) ==
    LET point == calcPlacement(vp, width, height, st.placementOffsetIndex)
    IN  [x |-> clamp(point.x, 0, CANVAS_WIDTH - width),
         y |-> clamp(point.y, 0, CANVAS_HEIGHT - height),
         placementOffsetIndex |-> st.placementOffsetIndex + 1]

\* returns the position and the new value of state.placementOffsetIndex
resolveInitialPlacement(st, vp, width, height) ==
    LET first == calcPlacement(vp, width, height, st.placementOffsetIndex)
        out == isOutOfBounds(first.x, first.y, width, height)
        offsetIndex == IF out THEN 0 ELSE st.placementOffsetIndex
        point == IF out THEN calcPlacement(vp, width, height, 0) ELSE first
    IN  [x |-> clamp(point.x, 0, CANVAS_WIDTH - width),
         y |-> clamp(point.y, 0, CANVAS_HEIGHT - height),
         placementOffsetIndex |-> offsetIndex + 1]

\* the new item; the counters it consumes are updated by addCanvasItem
\* a data URL "header,payload" is held as the pair of the text before its
\* first comma and the text after it; a text without a comma has one part.
\* Both ingestion paths build "data:image/png;base64," followed by the bytes.
PngDataUrl == <<"data:image/png;base64", "iVBORw0KGgo">>

NoBase64 == ""

\* lines 408-414: the text after the first comma, null without a comma
extractBase64(dataUrl) ==
    IF Len(dataUrl) < 2 THEN NoBase64 ELSE dataUrl[2]

createCanvasItem(st, vp, naturalWidth, naturalHeight, source, uuid, time) ==
    LET size == normalizeInitialSize(naturalWidth, naturalHeight)
        placement == resolveInitialPlacement(st, vp, size.width, size.height)
    IN  [id |-> uuid, source |-> source, dataUrl |-> PngDataUrl,
         naturalWidth |-> naturalWidth, naturalHeight |-> naturalHeight,
         x |-> placement.x, y |-> placement.y,
         width |-> size.width, height |-> size.height,
         zIndex |-> st.nextZIndex, createdAt |-> time]

addCanvasItem(st, vp, naturalWidth, naturalHeight, source, uuid, time) ==
    LET size == normalizeInitialSize(naturalWidth, naturalHeight)
        placement == resolveInitialPlacement(st, vp, size.width, size.height)
        newItem == createCanvasItem(st, vp, naturalWidth, naturalHeight,
                                    source, uuid, time)
    IN  enforceImageLimit(
            [items |-> Append(st.items, newItem),
             selectedId |-> newItem.id,
             nextZIndex |-> st.nextZIndex + 1,
             placementOffsetIndex |-> placement.placementOffsetIndex])

\* variant: the removed item stays the selected one
removeItemKeepSelection(st, itemId) ==
    [st EXCEPT !.items = filterSeq(st.items, itemIds(st.items) \ {itemId})]

removeItem(st, itemId) ==
    LET kept == filterSeq(st.items, itemIds(st.items) \ {itemId})
    IN  [st EXCEPT !.items = kept,
                   !.selectedId = IF Len(kept) # Len(st.items) /\ st.selectedId = itemId
                                  THEN NoId ELSE st.selectedId]

\* ---------------------------------------------------------------------
\* Geometry engine
\* ---------------------------------------------------------------------
\* handle.includes(letter)
includes(handle, letter) ==
    \/ handle = letter
    \/ handle = "ne" /\ letter \in {"n", "e"}
    \/ handle = "nw" /\ letter \in {"n", "w"}
    \/ handle = "se" /\ letter \in {"s", "e"}
    \/ handle = "sw" /\ letter \in {"s", "w"}

isCornerHandle(handle) == handle \in {"ne", "nw", "se", "sw"}

\* variant: minimum size enforced, right and bottom canvas edge not
computeEdgeResizeUnbounded(current, deltaX, deltaY) ==
    LET handle == current.handle
        w1 == IF includes(handle, "w") THEN current.startWidth - deltaX
              ELSE IF includes(handle, "e") THEN current.startWidth + deltaX
              ELSE current.startWidth
        h1 == IF includes(handle, "n") THEN current.startHeight - deltaY
              ELSE IF includes(handle, "s") THEN current.startHeight + deltaY
              ELSE current.startHeight
        x1 == IF includes(handle, "w") THEN current.startX + deltaX
              ELSE current.startX
        y1 == IF includes(handle, "n") THEN current.startY + deltaY
              ELSE current.startY
        nextWidth == Max2(MIN_SIZE, w1)
        nextHeight == Max2(MIN_SIZE, h1)
    IN  [x |-> Max2(0, x1), y |-> Max2(0, y1),
         width |-> nextWidth, height |-> nextHeight]

\* variant: at the minimum size the dragged edge keeps following the
\* pointer and pushes the item along
computeEdgeResizePushing(current, deltaX, deltaY) ==
    LET handle == current.handle
        x1 == IF includes(handle, "w")
              THEN clamp(current.startX + deltaX, 0, CANVAS_WIDTH - MIN_SIZE)
              ELSE current.startX
        y1 == IF includes(handle, "n")
              THEN clamp(current.startY + deltaY, 0, CANVAS_HEIGHT - MIN_SIZE)
              ELSE current.startY
        w1 == IF includes(handle, "w")
              THEN current.startX + current.startWidth - x1
              ELSE IF includes(handle, "e") THEN current.startWidth + deltaX
              ELSE current.startWidth
        h1 == IF includes(handle, "n")
              THEN current.startY + current.startHeight - y1
              ELSE IF includes(handle, "s") THEN current.startHeight + deltaY
              ELSE current.startHeight
    IN  [x |-> x1, y |-> y1,
         width |-> clamp(w1, MIN_SIZE, CANVAS_WIDTH - x1),
         height |-> clamp(h1, MIN_SIZE, CANVAS_HEIGHT - y1)]

computeEdgeResize(current, deltaX, deltaY) ==
    LET handle == current.handle
        startX == current.startX
        startY == current.startY
        startWidth == current.startWidth
        startHeight == current.startHeight
        \* lines 490-503: apply the delta
        w1 == IF includes(handle, "w") THEN startWidth - deltaX
              ELSE IF includes(handle, "e") THEN startWidth + deltaX
              ELSE startWidth
        h1 == IF includes(handle, "n") THEN startHeight - deltaY
              ELSE IF includes(handle, "s") THEN startHeight + deltaY
              ELSE startHeight
        x1 == IF includes(handle, "w") THEN startX + deltaX ELSE startX
        y1 == IF includes(handle, "n") THEN startY + deltaY ELSE startY
        \* lines 505-517: minimum size
        x2 == IF w1 < MIN_SIZE /\ includes(handle, "w")
              THEN startX + (startWidth - MIN_SIZE) ELSE x1
        w2 == IF w1 < MIN_SIZE THEN MIN_SIZE ELSE w1
        y2 == IF h1 < MIN_SIZE /\ includes(handle, "n")
              THEN startY + (startHeight - MIN_SIZE) ELSE y1
        h2 == IF h1 < MIN_SIZE THEN MIN_SIZE ELSE h1
        \* lines 519-531: left and top canvas edge
        w3 == IF x2 < 0 /\ includes(handle, "w") THEN w2 + x2 ELSE w2
        x3 == IF x2 < 0 THEN 0 ELSE x2
        h3 == IF y2 < 0 /\ includes(handle, "n") THEN h2 + y2 ELSE h2
        y3 == IF y2 < 0 THEN 0 ELSE y2
        \* lines 533-547: right and bottom canvas edge
        overX == x3 + w3 > CANVAS_WIDTH
        w4 == IF overX /\ includes(handle, "e") THEN CANVAS_WIDTH - x3 ELSE w3
        x4 == IF overX /\ ~includes(handle, "e") THEN CANVAS_WIDTH - w3 ELSE x3
        overY == y3 + h3 > CANVAS_HEIGHT
        h4 == IF overY /\ includes(handle, "s") THEN CANVAS_HEIGHT - y3 ELSE h3
        y4 == IF overY /\ ~includes(handle, "s") THEN CANVAS_HEIGHT - h3 ELSE y3
        \* lines 549-552
        nextWidth == Max2(MIN_SIZE, w4)
        nextHeight == Max2(MIN_SIZE, h4)
    IN  [x |-> clamp(x4, 0, CANVAS_WIDTH - nextWidth),
         y |-> clamp(y4, 0, CANVAS_HEIGHT - nextHeight),
         width |-> nextWidth, height |-> nextHeight]

\* variant: each axis follows the pointer on its own
computeCornerResizeFree(current, deltaX, deltaY) ==
    LET west == includes(current.handle, "w")
        north == includes(current.handle, "n")
        anchorX == IF west THEN current.startX + current.startWidth
                   ELSE current.startX
        anchorY == IF north THEN current.startY + current.startHeight
                   ELSE current.startY
        rawWidth == IF west THEN current.startWidth - deltaX
                    ELSE current.startWidth + deltaX
        rawHeight == IF north THEN current.startHeight - deltaY
                     ELSE current.startHeight + deltaY
        maxWidth == IF west THEN anchorX ELSE CANVAS_WIDTH - anchorX
        maxHeight == IF north THEN anchorY ELSE CANVAS_HEIGHT - anchorY
        width == Max2(MIN_SIZE, Min2(maxWidth, rawWidth))
        height == Max2(MIN_SIZE, Min2(maxHeight, rawHeight))
    IN  [x |-> IF west THEN anchorX - width ELSE anchorX,
         y |-> IF north THEN anchorY - height ELSE anchorY,
         width |-> width, height |-> height]

\* variant: the item grows and shrinks from its top left corner whichever
\* corner is dragged
computeCornerResizeTopLeft(current, deltaX, deltaY) ==
    LET startWidth == current.startWidth
        startHeight == current.startHeight
        rawWidth == IF includes(current.handle, "w") THEN startWidth - deltaX
                    ELSE startWidth + deltaX
        rawHeight == IF includes(current.handle, "n") THEN startHeight - deltaY
                     ELSE startHeight + deltaY
        minScale == fracMax(<<MIN_SIZE, startWidth>>, <<MIN_SIZE, startHeight>>)
        rawScale == fracMax(fracMax(<<rawWidth, startWidth>>,
                                    <<rawHeight, startHeight>>), minScale)
        maxScale == fracMax(minScale,
                            fracMin(<<CANVAS_WIDTH - current.startX, startWidth>>,
                                    <<CANVAS_HEIGHT - current.startY, startHeight>>))
        scale == fracClamp(rawScale, minScale, maxScale)
        width == Max2(MIN_SIZE, roundDiv(startWidth * scale[1], scale[2]))
        height == Max2(MIN_SIZE, roundDiv(startHeight * scale[1], scale[2]))
    IN  [x |-> clamp(current.startX, 0, CANVAS_WIDTH - width),
         y |-> clamp(current.startY, 0, CANVAS_HEIGHT - height),
         width |-> width, height |-> height]

computeCornerResize(current, deltaX, deltaY) ==
    LET handle == current.handle
        startX == current.startX
        startY == current.startY
        startWidth == current.startWidth
        startHeight == current.startHeight
        west == includes(handle, "w")
        north == includes(handle, "n")
        anchorX == IF west THEN startX + startWidth ELSE startX
        anchorY == IF north THEN startY + startHeight ELSE startY
        pointerX == IF west THEN startX + deltaX ELSE startX + startWidth + deltaX
        pointerY == IF north THEN startY + deltaY ELSE startY + startHeight + deltaY
        rawWidth == IF west THEN anchorX - pointerX ELSE pointerX - anchorX
        rawHeight == IF north THEN anchorY - pointerY ELSE pointerY - anchorY
        minScale == fracMax(<<MIN_SIZE, startWidth>>, <<MIN_SIZE, startHeight>>)
        rawScale == fracMax(fracMax(<<rawWidth, startWidth>>,
                                    <<rawHeight, startHeight>>), minScale)
        maxWidth == IF west THEN anchorX ELSE CANVAS_WIDTH - anchorX
        maxHeight == IF north THEN anchorY ELSE CANVAS_HEIGHT - anchorY
        maxScale == fracMax(minScale, fracMin(<<maxWidth, startWidth>>,
                                              <<maxHeight, startHeight>>))
        \* start sizes are positive, so every quotient is finite
        scale == fracClamp(rawScale, minScale, maxScale)
        width == Max2(MIN_SIZE, roundDiv(startWidth * scale[1], scale[2]))
        height == Max2(MIN_SIZE, roundDiv(startHeight * scale[1], scale[2]))
        x == IF west THEN anchorX - width ELSE anchorX
        y == IF north THEN anchorY - height ELSE anchorY
    IN  [x |-> clamp(x, 0, CANVAS_WIDTH - width),
         y |-> clamp(y, 0, CANVAS_HEIGHT - height),
         width |-> width, height |-> height]

\* variant: the position follows the pointer without a limit
computeMoveUnclamped(current, item, deltaX, deltaY) ==
    [x |-> current.startX + deltaX, y |-> current.startY + deltaY]

\* geometry written by handlePointerMove for a Move session (lines 629-639)
computeMove(current, item, deltaX, deltaY) ==
    [x |-> clamp(current.startX + deltaX, 0, CANVAS_WIDTH - item.width),
     y |-> clamp(current.startY + deltaY, 0, CANVAS_HEIGHT - item.height)]

\* ---------------------------------------------------------------------
\* State
\* ---------------------------------------------------------------------
VARIABLES
    state,          \* ref state: items, selectedId, nextZIndex, placementOffsetIndex
    undoStack,      \* ref undoStack
    noticeMessage,  \* ref noticeMessage, as [kind, added, failed]
    isDragActive,   \* ref isDragActive
    interaction,    \* ref interaction (NoInteraction for null)
    active,         \* props.active: the Clipboard tab is the shown tab
    viewport,       \* scroll position and client size of the canvas viewport
    now,            \* Date.now()
    uuids,          \* number of ids crypto.randomUUID() has issued
    pendingPastes,  \* handlePaste calls suspended in readClipboardImage
    pendingCopies,  \* copySelectedImage calls suspended in writeClipboardImage
    heap,           \* the objects behind state, undoStack and interaction
    shell,          \* the Tasks tab, its localStorage, the preferences file
                    \* and the window of the main process
    drops,          \* addDroppedFiles calls suspended in the decode of a file
    budget,         \* events the run may still handle
    last,           \* the event handled last: [op, id, a, b, ids] and the one before it
    pressed,        \* state as it was when the last press arrived
    log             \* pre-action states of the history-worthy actions so far

vars == <<state, undoStack, noticeMessage, isDragActive, interaction, active,
          viewport, now, uuids, pendingPastes, pendingCopies, heap, shell,
          drops, budget, last, pressed, log>>

store == <<state, undoStack>>

notice(kind, added, failed) == [kind |-> kind, added |-> added, failed |-> failed]

NoEvent == [op |-> "none", id |-> NoId, a |-> 0, b |-> 0]

\* an event record: what was handled, the item it concerned, two numbers of
\* the event (button, deltas, counts), the ids it added, the file list of
\* the drop it belongs to, and the event before
event(op, id, a, b, ids) ==
    [op |-> op, id |-> id, a |-> a, b |-> b, ids |-> ids, files |-> << >>,
     prev |-> [op |-> last.op, id |-> last.id, a |-> last.a, b |-> last.b]]

canUndo == Len(undoStack) > 0

\* ---------------------------------------------------------------------
\* Inputs
\* ---------------------------------------------------------------------
\* natural pixel sizes of pasted and dropped images
NaturalSizes == {<<120, 260>>, <<600, 1200>>}

\* a small window scrolled to the top left, and to the bottom right
Viewports ==
    {[scrollLeft |-> 0, scrollTop |-> 0, clientWidth |-> 930, clientHeight |-> 281],
     [scrollLeft |-> 1070, scrollTop |-> 1719, clientWidth |-> 930, clientHeight |-> 281]}

\* dropped files: a text file, an image that fails to decode, an image
FileKinds == {"txt", "bad", "img"}
\* file.type as the pair of the text before its first "/" and the text after
typeOf(file) == IF file = "txt" THEN <<"text", "plain">> ELSE <<"image", "png">>

\* file.type.startsWith("image/")
isImageType(file) == Len(typeOf(file)) = 2 /\ typeOf(file)[1] = "image"
decodes(file) == file = "img"
DropNatural == <<120, 260>>

DropBatches ==
    {<<"txt">>, <<"bad">>, <<"img", "img">>, <<"bad", "txt", "img", "img">>}

\* clientX, clientY of a press, and the pointer deltas of the moves after it
PressPoint == <<300, 200>>
Deltas == {<<0, 0>>, <<-7, 13>>, <<2000, 0>>, <<-2000, -2000>>}

Buttons == {0, 2}

\* the geometry specification: the first image's natural size, where the
\* viewport stands when it is pasted, and the pointer deltas of the sessions
GeomNaturals == {<<100, 100>>, <<75, 420>>, <<420, 133>>}

GeomViewports ==
    Viewports \cup
    {[scrollLeft |-> 535, scrollTop |-> 860, clientWidth |-> 930, clientHeight |-> 281]}

GeomDeltas ==
    {<<0, 0>>, <<-7, 13>>, <<2000, 0>>, <<-2000, -2000>>, <<0, 2000>>,
     <<40, -25>>, <<-300, 150>>, <<155, 155>>, <<14, 5>>, <<-60, -60>>}

\* ---------------------------------------------------------------------
\* Initial state (refs as constructed, lines 53-63)
\* ---------------------------------------------------------------------
InitRefs ==
    /\ state = EmptyState
    /\ undoStack = << >>
    /\ noticeMessage = notice("initial", 0, 0)
    /\ isDragActive = FALSE
    /\ interaction = NoInteraction
    /\ active = TRUE
    /\ now = 0
    /\ uuids = 0
    /\ pendingPastes = 0
    /\ pendingCopies = 0
    /\ heap = NoHeap
    /\ shell = NoShell
    /\ drops = << >>
    /\ last = [op |-> "init", id |-> NoId, a |-> 0, b |-> 0, ids |-> {},
               files |-> << >>,
               prev |-> NoEvent]
    /\ pressed = EmptyState
    /\ log = << >>

Init ==
    /\ InitRefs
    /\ viewport \in Viewports
    /\ budget = MaxSteps

\* every event handled uses up one unit of the run's budget
spend == budget > 0 /\ budget' = budget - 1

\* ---------------------------------------------------------------------
\* History manager
\* ---------------------------------------------------------------------
\* undo(): the new <<state, undoStack, noticeMessage>>
\* variant: the undo also runs while a move or resize session is active
undoDuringSession ==
    IF ~canUndo
    THEN <<state, undoStack, noticeMessage>>
    ELSE <<applySnapshot(undoStack[Len(undoStack)]),
           SubSeq(undoStack, 1, Len(undoStack) - 1),
           notice("undone", 0, 0)>>

undo ==
    IF ~canUndo \/ interaction # NoInteraction
    THEN <<state, undoStack, noticeMessage>>
    ELSE <<applySnapshot(undoStack[Len(undoStack)]),
           SubSeq(undoStack, 1, Len(undoStack) - 1),
           notice("undone", 0, 0)>>

\* click on the undo button (disabled while the stack is empty)
undoClick ==
    /\ spend
    /\ UNCHANGED shell
    /\ UNCHANGED heap
    /\ UNCHANGED pendingCopies
    /\ UNCHANGED log
    /\ canUndo
    /\ state' = undo[1]
    /\ undoStack' = undo[2]
    /\ noticeMessage' = undo[3]
    /\ last' = event("undo", NoId, 0, 0, {})
    /\ UNCHANGED <<isDragActive, interaction, active, viewport, now, uuids,
                   pendingPastes, drops, pressed>>

\* variant: the delete records its snapshot twice
removeSelectedItemTwice ==
    IF state.selectedId = NoId \/ ~hasItem(state, state.selectedId)
    THEN <<state, undoStack, noticeMessage>>
    ELSE <<removeItem(state, state.selectedId),
           pushUndo(pushUndo(undoStack, createSnapshot(state)),
                    createSnapshot(state)),
           notice("deleted", 0, 0)>>

\* variant: the selection is put back after the removal
removeSelectedItemKeepSelection ==
    IF state.selectedId = NoId \/ ~hasItem(state, state.selectedId)
    THEN <<state, undoStack, noticeMessage>>
    ELSE <<[removeItem(state, state.selectedId) EXCEPT
               !.selectedId = state.selectedId],
           pushUndo(undoStack, createSnapshot(state)),
           notice("deleted", 0, 0)>>

\* removeSelectedItem(true): the new <<state, undoStack, noticeMessage>>
removeSelectedItem ==
    IF state.selectedId = NoId \/ ~hasItem(state, state.selectedId)
    THEN <<state, undoStack, noticeMessage>>
    ELSE <<removeItem(state, state.selectedId),
           pushUndo(undoStack, createSnapshot(state)),
           notice("deleted", 0, 0)>>

\* lines 65-67: the selected item, or null
NoItem == [id |-> NoId]

selectedItem ==
    IF hasItem(state, state.selectedId)
    THEN getItemById(state, state.selectedId)
    ELSE NoItem

\* copySelectedImage up to the await of writeClipboardImage: the new
\* <<pendingCopies, noticeMessage>>
copySelectedImage ==
    IF ~active \/ selectedItem = NoItem
    THEN <<pendingCopies, noticeMessage>>
    ELSE IF extractBase64(selectedItem.dataUrl) = NoBase64
    THEN <<pendingCopies, notice("copyNoData", 0, 0)>>
    ELSE <<pendingCopies + 1, noticeMessage>>

\* lines 416-427
getCopyFailureMessage(reason) ==
    IF reason = "invalid_payload" THEN notice("copyInvalidPayload", 0, 0)
    ELSE IF reason = "decode_failed" THEN notice("copyDecodeFailed", 0, 0)
    ELSE IF reason = "write_failed" THEN notice("copyWriteFailed", 0, 0)
    ELSE notice("copyFailed", 0, 0)

CopyOutcomes ==
    {"ok", "invalid_payload", "decode_failed", "write_failed", "noReason",
     "throw"}

\* variant: a copy that did not succeed also drops the selection
copyResumeDeselecting(outcome) ==
    /\ spend
    /\ UNCHANGED shell
    /\ UNCHANGED heap
    /\ UNCHANGED log
    /\ pendingCopies > 0
    /\ pendingCopies' = pendingCopies - 1
    /\ noticeMessage' = IF outcome = "ok" THEN notice("copied", 0, 0)
                        ELSE IF outcome = "throw" THEN notice("copyFailed", 0, 0)
                        ELSE getCopyFailureMessage(outcome)
    /\ state' = IF outcome = "ok" THEN state
                ELSE [state EXCEPT !.selectedId = NoId]
    /\ last' = event("copyResume", NoId, 0, 0, {})
    /\ UNCHANGED <<undoStack, isDragActive, interaction, active,
                   viewport, now, uuids, pendingPastes, drops, pressed>>

\* writeClipboardImage settles: outcome is "ok", a failure reason,
\* "noReason" (a failure without a reason) or "throw"
copyResume(outcome) ==
    /\ spend
    /\ UNCHANGED shell
    /\ UNCHANGED heap
    /\ UNCHANGED log
    /\ pendingCopies > 0
    /\ pendingCopies' = pendingCopies - 1
    /\ noticeMessage' = IF outcome = "ok" THEN notice("copied", 0, 0)
                        ELSE IF outcome = "throw" THEN notice("copyFailed", 0, 0)
                        ELSE getCopyFailureMessage(outcome)
    /\ last' = event("copyResume", NoId, 0, 0, {})
    /\ UNCHANGED <<state, undoStack, isDragActive, interaction, active,
                   viewport, now, uuids, pendingPastes, drops, pressed>>

\* click on the copy button (disabled while nothing is selected)
copyClick ==
    /\ spend
    /\ UNCHANGED shell
    /\ UNCHANGED heap
    /\ UNCHANGED log
    /\ selectedItem # NoItem
    /\ pendingCopies < MaxPendingCopies
    /\ pendingCopies' = copySelectedImage[1]
    /\ noticeMessage' = copySelectedImage[2]
    /\ last' = event("copy", state.selectedId, 0, 0, {})
    /\ UNCHANGED <<state, undoStack, isDragActive, interaction, active,
                   viewport, now, uuids, pendingPastes, drops, pressed>>

\* lines 137-145: the focused element is an INPUT, a TEXTAREA or editable
isTextInputFocused(focus) ==
    focus.tag = "INPUT" \/ focus.tag = "TEXTAREA" \/ focus.isContentEditable

\* the elements that can hold the focus while the clipboard tab is shown:
\* the document body, a toolbar button, the pin checkbox of the window
\* header (an INPUT)
Focusable ==
    {[tag |-> "BODY", isContentEditable |-> FALSE],
     [tag |-> "BUTTON", isContentEditable |-> FALSE],
     [tag |-> "INPUT", isContentEditable |-> FALSE]}

Unfocused == [tag |-> "BODY", isContentEditable |-> FALSE]

focusFlag(focus) == IF isTextInputFocused(focus) THEN 1 ELSE 0

\* keydown on window: Ctrl+C, Ctrl+Z and Delete
handleKeyDown(key, focus) ==
    /\ spend
    /\ UNCHANGED shell
    /\ UNCHANGED heap
    /\ key \in {"c", "z", "Delete"}
    /\ key = "c" => pendingCopies < MaxPendingCopies
    /\ log' = IF active /\ ~isTextInputFocused(focus) /\ key = "Delete"
                 /\ removeSelectedItem[1] # state
              THEN Append(log, createSnapshot(state))
              ELSE log
    /\ last' = event(key, state.selectedId, focusFlag(focus), 0, {})
    /\ IF ~active \/ isTextInputFocused(focus)
       THEN UNCHANGED <<state, undoStack, noticeMessage, pendingCopies>>
       ELSE IF key = "c"
       THEN /\ pendingCopies' = IF state.selectedId = NoId THEN pendingCopies
                                ELSE copySelectedImage[1]
            /\ noticeMessage' = IF state.selectedId = NoId THEN noticeMessage
                                ELSE copySelectedImage[2]
            /\ UNCHANGED <<state, undoStack>>
       ELSE IF key = "z"
       THEN /\ state' = undo[1]
            /\ undoStack' = undo[2]
            /\ noticeMessage' = undo[3]
            /\ UNCHANGED pendingCopies
       ELSE /\ state' = removeSelectedItem[1]
            /\ undoStack' = removeSelectedItem[2]
            /\ noticeMessage' = removeSelectedItem[3]
            /\ UNCHANGED pendingCopies
    /\ UNCHANGED <<isDragActive, interaction, active, viewport, now, uuids,
                   pendingPastes, drops, pressed>>

\* ---------------------------------------------------------------------
\* Ingestion: paste
\* ---------------------------------------------------------------------
\* paste event: up to the await of readClipboardImage
handlePaste(focus) ==
    /\ spend
    /\ UNCHANGED shell
    /\ UNCHANGED heap
    /\ UNCHANGED pendingCopies
    /\ UNCHANGED log
    /\ pendingPastes < MaxPendingPastes
    /\ last' = event("paste", NoId, focusFlag(focus), 0, {})
    /\ pendingPastes' = IF active THEN pendingPastes + 1 ELSE pendingPastes
    /\ UNCHANGED <<state, undoStack, noticeMessage, isDragActive, interaction,
                   active, viewport, now, uuids, drops, pressed>>

\* variant: a read that throws is reported like an empty clipboard
pasteNoticeQuiet(outcome) == notice("nothingToPaste", 0, 0)

\* lines 732-735 and 742-743: the message for a read that gave no image
pasteNotice(outcome) ==
    IF outcome = "empty"
    THEN notice("nothingToPaste", 0, 0)
    ELSE notice("pasteFailed", 0, 0)

\* readClipboardImage settles: outcome is "image", "empty" or "throw"
handlePasteResume(outcome, natural, time) ==
    /\ spend
    /\ UNCHANGED shell
    /\ UNCHANGED heap
    /\ UNCHANGED pendingCopies
    /\ pendingPastes > 0
    /\ pendingPastes' = pendingPastes - 1
    /\ IF outcome = "image"
       THEN /\ state' = addCanvasItem(state, viewport, natural[1], natural[2],
                                      "paste", uuids + 1, time)
            /\ undoStack' = pushUndo(undoStack, createSnapshot(state))
            /\ noticeMessage' = notice("added", 1, 0)
            /\ uuids' = uuids + 1
            /\ now' = time
            /\ last' = event("pasted", uuids + 1, 0, 0, {uuids + 1})
            /\ log' = Append(log, createSnapshot(state))
       ELSE /\ noticeMessage' = pasteNotice(outcome)
            /\ last' = event(outcome, NoId, 0, 0, {})
            /\ UNCHANGED <<state, undoStack, uuids, now, log>>
    /\ UNCHANGED <<isDragActive, interaction, active, viewport, drops, pressed>>

\* ---------------------------------------------------------------------
\* Ingestion: file drop
\* ---------------------------------------------------------------------
\* variant: every dropped file is attempted
imageFilesOfAll(fileList) == fileList

RECURSIVE imageFilesOf(_)
imageFilesOf(fileList) ==
    IF fileList = << >> THEN << >>
    ELSE IF isImageType(Head(fileList))
         THEN <<Head(fileList)>> \o imageFilesOf(Tail(fileList))
         ELSE imageFilesOf(Tail(fileList))

countFiles(files, wanted) ==
    Cardinality({i \in 1..Len(files) : decodes(files[i]) = wanted})

\* dragenter / dragover on the viewport
dragOver ==
    /\ spend
    /\ UNCHANGED shell
    /\ UNCHANGED heap
    /\ UNCHANGED pendingCopies
    /\ UNCHANGED log
    /\ interaction = NoInteraction
    /\ isDragActive' = IF active THEN TRUE ELSE isDragActive
    /\ last' = event("dragOver", NoId, 0, 0, {})
    /\ UNCHANGED <<state, undoStack, noticeMessage, interaction, active,
                   viewport, now, uuids, pendingPastes, drops, pressed>>

dragLeave ==
    /\ spend
    /\ UNCHANGED shell
    /\ UNCHANGED heap
    /\ UNCHANGED pendingCopies
    /\ UNCHANGED log
    /\ isDragActive
    /\ isDragActive' = FALSE
    /\ last' = event("dragLeave", NoId, 0, 0, {})
    /\ UNCHANGED <<state, undoStack, noticeMessage, interaction, active,
                   viewport, now, uuids, pendingPastes, drops, pressed>>

\* drop event: onCanvasDrop and addDroppedFiles up to the first await
onCanvasDrop(fileList) ==
    LET imageFiles == imageFilesOf(fileList)
    IN  /\ spend
        /\ UNCHANGED shell
        /\ UNCHANGED heap
        /\ UNCHANGED pendingCopies
        /\ UNCHANGED log
        /\ interaction = NoInteraction
        /\ Len(drops) < MaxDrops
        /\ isDragActive' = FALSE
        /\ last' = [event("drop", NoId, Len(imageFiles), 0, {})
                        EXCEPT !.files = fileList]
        /\ IF ~active
           THEN UNCHANGED <<noticeMessage, drops>>
           ELSE IF Len(imageFiles) = 0
           THEN /\ noticeMessage' = notice("dropNoImages", 0, 0)
                /\ UNCHANGED drops
           ELSE /\ drops' = Append(drops,
                        [fileList |-> fileList, files |-> imageFiles,
                         index |-> 1,
                         beforeSnapshot |-> createSnapshot(state),
                         successCount |-> 0, failureCount |-> 0, added |-> {}])
                /\ UNCHANGED noticeMessage
        /\ UNCHANGED <<state, undoStack, interaction, active, viewport, now,
                       uuids, pendingPastes, pressed>>

\* variant: a batch that has ended pushes its entry even with nothing added
commitDropAlways(drop, successCount, finished) ==
    IF finished
    THEN pushUndo(undoStack, drop.beforeSnapshot)
    ELSE undoStack

\* variant: one history entry per added file
commitDropPerFile(drop, successCount, finished) ==
    IF successCount > drop.successCount
    THEN pushUndo(undoStack, createSnapshot(state))
    ELSE undoStack

\* lines 384-389: one history entry for the batch, once it has ended with
\* at least one file added
commitDrop(drop, successCount, finished) ==
    IF finished /\ successCount > 0
    THEN pushUndo(undoStack, drop.beforeSnapshot)
    ELSE undoStack

removeAt(s, i) == [j \in 1..(Len(s) - 1) |-> IF j < i THEN s[j] ELSE s[j + 1]]

\* the decode of the current file of drop d settles; after the last file
\* the rest of addDroppedFiles runs in the same turn
addDroppedFiles(d, time) ==
    LET drop == drops[d]
        file == drop.files[drop.index]
        ok == decodes(file)
        successCount == drop.successCount + (IF ok THEN 1 ELSE 0)
        failureCount == drop.failureCount + (IF ok THEN 0 ELSE 1)
        added == IF ok THEN drop.added \cup {uuids + 1} ELSE drop.added
        added1 == IF ok
                  THEN addCanvasItem(state, viewport, DropNatural[1],
                                     DropNatural[2], "drop", uuids + 1, time)
                  ELSE state
        finished == drop.index = Len(drop.files)
    IN  /\ spend
        /\ UNCHANGED shell
        /\ UNCHANGED heap
        /\ UNCHANGED pendingCopies
        /\ state' = added1
        /\ uuids' = IF ok THEN uuids + 1 ELSE uuids
        /\ now' = IF ok THEN time ELSE now
        /\ IF ~finished
           THEN /\ drops' = [drops EXCEPT ![d] =
                        [drop EXCEPT !.index = drop.index + 1,
                                     !.successCount = successCount,
                                     !.failureCount = failureCount,
                                     !.added = added]]
                /\ last' = [event("dropStep", IF ok THEN uuids + 1 ELSE NoId,
                                  successCount, failureCount, added)
                                EXCEPT !.files = drop.fileList]
                /\ UNCHANGED noticeMessage
           ELSE /\ drops' = removeAt(drops, d)
                /\ last' = [event("dropDone", IF ok THEN uuids + 1 ELSE NoId,
                                  successCount, failureCount, added)
                                EXCEPT !.files = drop.fileList]
                /\ noticeMessage' =
                      IF successCount = 0 THEN notice("dropNoneAdded", 0, 0)
                      ELSE IF failureCount > 0
                      THEN notice("addedSomeFailed", successCount, failureCount)
                      ELSE notice("addedAll", successCount, 0)
        /\ undoStack' = commitDrop(drop, successCount, finished)
        /\ log' = IF finished /\ added # {}
                  THEN Append(log, drop.beforeSnapshot)
                  ELSE log
        /\ UNCHANGED <<isDragActive, interaction, active, viewport,
                       pendingPastes, pressed>>

\* ---------------------------------------------------------------------
\* Interaction controller
\* ---------------------------------------------------------------------
\* variant: the history entry is taken at the release, not at the press
stopInteractionLate(commitHistory) ==
    IF ~commitHistory \/ interaction = NoInteraction THEN undoStack
    ELSE IF isUndoTargetChanged(interaction.startSnapshot, createSnapshot(state))
    THEN pushUndo(undoStack, createSnapshot(state))
    ELSE undoStack

\* stopInteraction(commitHistory): the new undoStack (interaction becomes null)
stopInteraction(commitHistory) ==
    IF ~commitHistory \/ interaction = NoInteraction THEN undoStack
    ELSE IF isUndoTargetChanged(interaction.startSnapshot, createSnapshot(state))
    THEN pushUndo(undoStack, interaction.startSnapshot)
    ELSE undoStack

\* mousedown on an item body.  A primary press needs the primary button to
\* be up, so no press arrives while a session is active.
startMove(itemId, button) ==
    /\ spend
    /\ UNCHANGED shell
    /\ UNCHANGED heap
    /\ UNCHANGED pendingCopies
    /\ UNCHANGED log
    /\ interaction = NoInteraction
    /\ hasItem(state, itemId)
    /\ last' = event("startMove", itemId, button, 0, {})
    /\ IF ~active \/ button # 0
       THEN UNCHANGED <<state, interaction, pressed>>
       ELSE LET item == getItemById(state, itemId)
            IN  /\ pressed' = state
                /\ state' = selectItem(state, itemId)
                /\ interaction' =
                      [mode |-> "move", itemId |-> itemId,
                       startClientX |-> PressPoint[1],
                       startClientY |-> PressPoint[2],
                       startX |-> item.x, startY |-> item.y,
                       startSnapshot |-> createSnapshot(state)]
    /\ UNCHANGED <<undoStack, noticeMessage, isDragActive, active, viewport,
                   now, uuids, pendingPastes, drops>>

\* mousedown on a resize handle; handles are rendered on the selected item
startResize(itemId, handle, button) ==
    /\ spend
    /\ UNCHANGED shell
    /\ UNCHANGED heap
    /\ UNCHANGED pendingCopies
    /\ UNCHANGED log
    /\ interaction = NoInteraction
    /\ hasItem(state, itemId)
    /\ state.selectedId = itemId
    /\ last' = event("startResize", itemId, button, 0, {})
    /\ IF ~active \/ button # 0
       THEN UNCHANGED <<state, interaction, pressed>>
       ELSE LET item == getItemById(state, itemId)
            IN  /\ pressed' = state
                /\ state' = selectItem(state, itemId)
                /\ interaction' =
                      [mode |-> "resize", itemId |-> itemId, handle |-> handle,
                       startClientX |-> PressPoint[1],
                       startClientY |-> PressPoint[2],
                       startX |-> item.x, startY |-> item.y,
                       startWidth |-> item.width, startHeight |-> item.height,
                       startSnapshot |-> createSnapshot(state)]
    /\ UNCHANGED <<undoStack, noticeMessage, isDragActive, active, viewport,
                   now, uuids, pendingPastes, drops>>

\* mousemove on window; the listener exists only while a session is active
handlePointerMove(clientX, clientY) ==
    /\ spend
    /\ UNCHANGED shell
    /\ UNCHANGED heap
    /\ UNCHANGED pendingCopies
    /\ UNCHANGED log
    /\ interaction # NoInteraction
    /\ LET deltaX == clientX - interaction.startClientX
           deltaY == clientY - interaction.startClientY
       IN  /\ last' = event("pointerMove", interaction.itemId, deltaX, deltaY, {})
           /\ IF ~hasItem(state, interaction.itemId)
              THEN /\ interaction' = NoInteraction
                   /\ undoStack' = stopInteraction(FALSE)
                   /\ UNCHANGED state
              ELSE LET item == getItemById(state, interaction.itemId)
                       geometry ==
                           IF interaction.mode = "move"
                           THEN computeMove(interaction, item, deltaX, deltaY)
                           ELSE IF isCornerHandle(interaction.handle)
                           THEN computeCornerResize(interaction, deltaX, deltaY)
                           ELSE computeEdgeResize(interaction, deltaX, deltaY)
                   IN  /\ state' = updateItem(state, interaction.itemId, geometry)
                       /\ UNCHANGED <<interaction, undoStack>>
    /\ UNCHANGED <<noticeMessage, isDragActive, active, viewport, now, uuids,
                   pendingPastes, drops, pressed>>

\* the session's item is still there and not where it was at the press
movedSincePress ==
    /\ hasItem(state, interaction.itemId)
    /\ hasItem(pressed, interaction.itemId)
    /\ LET item == getItemById(state, interaction.itemId)
           before == getItemById(pressed, interaction.itemId)
       IN  item.x # before.x \/ item.y # before.y

\* mouseup on window
handlePointerUp ==
    /\ spend
    /\ UNCHANGED shell
    /\ UNCHANGED heap
    /\ UNCHANGED pendingCopies
    /\ interaction # NoInteraction
    /\ interaction' = NoInteraction
    /\ undoStack' = stopInteraction(TRUE)
    /\ log' = IF toUndoComparable(createSnapshot(pressed))
                 # toUndoComparable(createSnapshot(state))
              THEN Append(log, createSnapshot(pressed))
              ELSE log
    /\ last' = event(IF interaction.mode = "move" THEN "moveUp" ELSE "resizeUp",
                     interaction.itemId, IF movedSincePress THEN 1 ELSE 0, 0, {})
    /\ UNCHANGED <<state, noticeMessage, isDragActive, active, viewport, now,
                   uuids, pendingPastes, drops, pressed>>

\* variant: the background press is handled on the hidden tab too
clearSelectionAnyTab(button) ==
    /\ spend
    /\ UNCHANGED shell
    /\ UNCHANGED heap
    /\ UNCHANGED pendingCopies
    /\ UNCHANGED log
    /\ interaction = NoInteraction
    /\ last' = event("clearSelection", state.selectedId, button, 0, {})
    /\ state' = IF button # 0 THEN state
                ELSE [state EXCEPT !.selectedId = NoId]
    /\ UNCHANGED <<undoStack, noticeMessage, isDragActive, interaction, active,
                   viewport, now, uuids, pendingPastes, drops, pressed>>

\* mousedown on the viewport background
clearSelection(button) ==
    /\ spend
    /\ UNCHANGED shell
    /\ UNCHANGED heap
    /\ UNCHANGED pendingCopies
    /\ UNCHANGED log
    /\ interaction = NoInteraction
    /\ last' = event("clearSelection", state.selectedId, button, 0, {})
    /\ state' = IF ~active \/ button # 0 THEN state
                ELSE [state EXCEPT !.selectedId = NoId]
    /\ UNCHANGED <<undoStack, noticeMessage, isDragActive, interaction, active,
                   viewport, now, uuids, pendingPastes, drops, pressed>>

\* ---------------------------------------------------------------------
\* Environment: tab buttons of App.vue, scrolling of the viewport
\* ---------------------------------------------------------------------
switchTab ==
    /\ spend
    /\ UNCHANGED shell
    /\ UNCHANGED heap
    /\ UNCHANGED pendingCopies
    /\ UNCHANGED log
    /\ active' = ~active
    /\ last' = event("switchTab", NoId, 0, 0, {})
    /\ UNCHANGED <<state, undoStack, noticeMessage, isDragActive, interaction,
                   viewport, now, uuids, pendingPastes, drops, pressed>>

scroll(vp) ==
    /\ spend
    /\ UNCHANGED shell
    /\ UNCHANGED heap
    /\ UNCHANGED pendingCopies
    /\ UNCHANGED log
    /\ vp # viewport
    /\ viewport' = vp
    /\ last' = event("scroll", NoId, 0, 0, {})
    /\ UNCHANGED <<state, undoStack, noticeMessage, isDragActive, interaction,
                   active, now, uuids, pendingPastes, drops, pressed>>

\* ---------------------------------------------------------------------
\* The interactive specification
\* ---------------------------------------------------------------------
\* Each add reads a clock that has advanced by a millisecond.
Next ==
    \/ undoClick
    \/ \E key \in {"z", "Delete"} : handleKeyDown(key, Unfocused)
    \/ handlePaste(Unfocused)
    \/ \E natural \in NaturalSizes :
            handlePasteResume("image", natural, now + 1)
    \/ handlePasteResume("empty", DropNatural, now + 1)
    \/ \E fileList \in DropBatches : onCanvasDrop(fileList)
    \/ \E d \in 1..Len(drops) : addDroppedFiles(d, now + 1)
    \/ \E itemId \in itemIds(state.items) : startMove(itemId, 0)
    \/ \E itemId \in itemIds(state.items), handle \in HANDLE_DIRECTIONS :
            startResize(itemId, handle, 0)
    \/ \E delta \in Deltas :
            handlePointerMove(PressPoint[1] + delta[1], PressPoint[2] + delta[2])
    \/ handlePointerUp
    \/ clearSelection(0)
    \/ \E vp \in Viewports : scroll(vp)

Spec == Init /\ [][Next]_vars

\* ---------------------------------------------------------------------
\* The geometry specification: move and resize sessions on the first image
\* ---------------------------------------------------------------------
\* the state right after the first paste (handlePaste, lines 723-744)
InitGeom ==
    /\ viewport \in GeomViewports
    /\ \E natural \in GeomNaturals :
          state = addCanvasItem(EmptyState, viewport, natural[1], natural[2],
                                "paste", 1, 1)
    /\ undoStack = pushUndo(<< >>, createSnapshot(EmptyState))
    /\ noticeMessage = notice("added", 1, 0)
    /\ isDragActive = FALSE
    /\ interaction = NoInteraction
    /\ active = TRUE
    /\ now = 1
    /\ uuids = 1
    /\ pendingPastes = 0
    /\ pendingCopies = 0
    /\ heap = NoHeap
    /\ shell = NoShell
    /\ drops = << >>
    /\ last = [op |-> "pasted", id |-> 1, a |-> 0, b |-> 0, ids |-> {1},
               files |-> << >>,
               prev |-> [op |-> "paste", id |-> NoId, a |-> 0, b |-> 0]]
    /\ pressed = EmptyState
    /\ log = <<createSnapshot(EmptyState)>>
    /\ budget = MaxGeomSteps

NextGeom ==
    \/ \E itemId \in itemIds(state.items) : startMove(itemId, 0)
    \/ \E itemId \in itemIds(state.items), handle \in HANDLE_DIRECTIONS :
            startResize(itemId, handle, 0)
    \/ \E delta \in GeomDeltas :
            handlePointerMove(PressPoint[1] + delta[1], PressPoint[2] + delta[2])
    \/ handlePointerUp

SpecGeom == InitGeom /\ [][NextGeom]_vars

\* ---------------------------------------------------------------------
\* The capacity specification: adds, deletes and undos on a full canvas
\* ---------------------------------------------------------------------
\* the element of a one-element set.  TLC computes the elements of a set
\* when it builds the set, so a run written with it is computed half by
\* half and not as one nest of n calls.
only(S) == CHOOSE v \in S : TRUE

CapViewport ==
    [scrollLeft |-> 535, scrollTop |-> 860, clientWidth |-> 930, clientHeight |-> 281]

\* state.value after the images first .. first + n - 1 of a drop have been
\* added to st, two images decoded per millisecond (addDroppedFiles, lines
\* 362-397); a run of n adds is a run of its first half, then of the rest
RECURSIVE batchRun(_, _, _)
batchRun(st, first, n) ==
    IF n = 0 THEN st
    ELSE IF n = 1
    THEN addCanvasItem(st, CapViewport, DropNatural[1], DropNatural[2],
                       "drop", first, (first + 1) \div 2)
    ELSE LET half == n \div 2
         IN  only({batchRun(mid, first + half, n - half) :
                      mid \in {batchRun(st, first, half)}})

\* the state right after a drop of CapPrefill - 1 or CapPrefill images
InitCap ==
    \E n \in {CapPrefill - 1, CapPrefill} :
        /\ viewport = CapViewport
        /\ state = batchRun(EmptyState, 1, n)
        /\ undoStack = pushUndo(<< >>, createSnapshot(EmptyState))
        /\ noticeMessage = notice("addedAll", n, 0)
        /\ isDragActive = FALSE
        /\ interaction = NoInteraction
        /\ active = TRUE
        /\ now = (n + 1) \div 2
        /\ uuids = n
        /\ pendingPastes = 0
        /\ pendingCopies = 0
        /\ heap = NoHeap
        /\ shell = NoShell
        /\ drops = << >>
        /\ last = [op |-> "dropDone", id |-> n, a |-> n, b |-> 0, ids |-> 1..n,
                   files |-> [i \in 1..n |-> "img"],
                   prev |-> [op |-> "dropStep", id |-> n - 1, a |-> n - 1, b |-> 0]]
        /\ pressed = EmptyState
        /\ log = <<createSnapshot(EmptyState)>>
        /\ budget = MaxCapSteps

\* An add reads the clock in the millisecond of the add before it or in the
\* next one.  Presses go to the item that was created first.
NextCap ==
    \/ undoClick
    \/ \E key \in {"z", "Delete"} : handleKeyDown(key, Unfocused)
    \/ handlePaste(Unfocused)
    \/ \E time \in {now, now + 1} :
            handlePasteResume("image", DropNatural, time)
    \/ onCanvasDrop(<<"img", "bad", "img">>)
    \/ \E d \in 1..Len(drops), time \in {now, now + 1} : addDroppedFiles(d, time)
    \/ \E itemId \in oldestIds(state.items, 1) : startMove(itemId, 0)
    \/ handlePointerMove(PressPoint[1] - 7, PressPoint[2] + 13)
    \/ handlePointerUp

SpecCap == InitCap /\ [][NextCap]_vars

\* ---------------------------------------------------------------------
\* The history specification: history-worthy actions without an undo
\* ---------------------------------------------------------------------
\* one history-worthy action on the run so far: a paste onto the empty
\* canvas (handlePaste) or the delete of the selected image (handleKeyDown)
pasteOrDelete(before) ==
    IF before.state.items = << >>
    THEN [state |-> addCanvasItem(before.state, CapViewport, DropNatural[1],
                                  DropNatural[2], "paste", before.uuids + 1,
                                  before.now + 1),
          undoStack |-> pushUndo(before.undoStack, createSnapshot(before.state)),
          log |-> Append(before.log, createSnapshot(before.state)),
          uuids |-> before.uuids + 1,
          now |-> before.now + 1]
    ELSE [state |-> removeItem(before.state, before.state.selectedId),
          undoStack |-> pushUndo(before.undoStack, createSnapshot(before.state)),
          log |-> Append(before.log, createSnapshot(before.state)),
          uuids |-> before.uuids,
          now |-> before.now]

\* n such actions in a row: the first half of them, then the rest
RECURSIVE pasteDeleteRun(_, _)
pasteDeleteRun(before, n) ==
    IF n = 0 THEN before
    ELSE IF n = 1 THEN pasteOrDelete(before)
    ELSE LET half == n \div 2
         IN  only({pasteDeleteRun(mid, n - half) :
                      mid \in {pasteDeleteRun(before, half)}})

NoRun ==
    [state |-> EmptyState, undoStack |-> << >>, log |-> << >>,
     uuids |-> 0, now |-> 0]

\* the state after HistPrefill - 10 or HistPrefill such actions
InitHist ==
    \E n \in {HistPrefill - 10, HistPrefill} :
        LET run == pasteDeleteRun(NoRun, n)
        IN  /\ viewport = CapViewport
            /\ state = run.state
            /\ undoStack = run.undoStack
            /\ log = run.log
            /\ uuids = run.uuids
            /\ now = run.now
            /\ noticeMessage = IF run.state.items = << >>
                               THEN notice("deleted", 0, 0)
                               ELSE notice("added", 1, 0)
            /\ isDragActive = FALSE
            /\ interaction = NoInteraction
            /\ active = TRUE
            /\ pendingPastes = 0
            /\ pendingCopies = 0
            /\ heap = NoHeap
            /\ shell = NoShell
            /\ drops = << >>
            /\ last = IF run.state.items = << >>
                      THEN [op |-> "Delete", id |-> run.uuids, a |-> 0, b |-> 0,
                            ids |-> {}, files |-> << >>,
                            prev |-> [op |-> "pasted", id |-> run.uuids,
                                      a |-> 0, b |-> 0]]
                      ELSE [op |-> "pasted", id |-> run.uuids, a |-> 0, b |-> 0,
                            ids |-> {run.uuids}, files |-> << >>,
                            prev |-> [op |-> "paste", id |-> NoId,
                                      a |-> 0, b |-> 0]]
            /\ pressed = EmptyState
            /\ budget = MaxHistSteps

NextHist ==
    \/ handleKeyDown("Delete", Unfocused)
    \/ handlePaste(Unfocused)
    \/ \E natural \in NaturalSizes :
            handlePasteResume("image", natural, now + 1)
    \/ \E fileList \in DropBatches : onCanvasDrop(fileList)
    \/ \E d \in 1..Len(drops) : addDroppedFiles(d, now + 1)
    \/ \E itemId \in itemIds(state.items) : startMove(itemId, 0)
    \/ \E itemId \in itemIds(state.items), handle \in {"e", "sw"} :
            startResize(itemId, handle, 0)
    \/ \E delta \in Deltas :
            handlePointerMove(PressPoint[1] + delta[1], PressPoint[2] + delta[2])
    \/ handlePointerUp

SpecHist == InitHist /\ [][NextHist]_vars

\* ---------------------------------------------------------------------
\* The keyboard specification: shortcuts, copies and pastes on one image,
\* with the focus on the page, on a button or on the pin checkbox
\* ---------------------------------------------------------------------
KeyDelta == <<-7, 13>>

\* the state right after the first paste (handlePaste, lines 723-744)
InitKeys ==
    /\ viewport \in Viewports
    /\ \E natural \in NaturalSizes :
          state = addCanvasItem(EmptyState, viewport, natural[1], natural[2],
                                "paste", 1, 1)
    /\ undoStack = pushUndo(<< >>, createSnapshot(EmptyState))
    /\ noticeMessage = notice("added", 1, 0)
    /\ isDragActive = FALSE
    /\ interaction = NoInteraction
    /\ active = TRUE
    /\ now = 1
    /\ uuids = 1
    /\ pendingPastes = 0
    /\ pendingCopies = 0
    /\ heap = NoHeap
    /\ shell = NoShell
    /\ drops = << >>
    /\ last = [op |-> "pasted", id |-> 1, a |-> 0, b |-> 0, ids |-> {1},
               files |-> << >>,
               prev |-> [op |-> "paste", id |-> NoId, a |-> 0, b |-> 0]]
    /\ pressed = EmptyState
    /\ log = <<createSnapshot(EmptyState)>>
    /\ budget = MaxKeySteps

NextKeys ==
    \/ \E key \in {"c", "z", "Delete"}, focus \in Focusable :
            handleKeyDown(key, focus)
    \/ copyClick
    \/ \E outcome \in CopyOutcomes : copyResume(outcome)
    \/ \E focus \in Focusable : handlePaste(focus)
    \/ \E natural \in NaturalSizes :
            handlePasteResume("image", natural, now + 1)
    \/ \E outcome \in {"empty", "throw"} :
            handlePasteResume(outcome, DropNatural, now + 1)
    \/ undoClick
    \/ \E itemId \in itemIds(state.items) : startMove(itemId, 0)
    \/ handlePointerMove(PressPoint[1] + KeyDelta[1], PressPoint[2] + KeyDelta[2])
    \/ handlePointerUp
    \/ clearSelection(0)

SpecKeys == InitKeys /\ [][NextKeys]_vars
\* ---------------------------------------------------------------------
\* The tab specification: events that arrive while the Clipboard tab is
\* shown and while it is hidden, and drops of files that add nothing
\* ---------------------------------------------------------------------
TabNatural == <<120, 260>>

TabBatches == {<<"txt">>, <<"bad", "txt", "bad">>, <<"txt", "img">>}

\* the state right after the first paste (handlePaste, lines 723-744)
InitTabs ==
    /\ viewport \in Viewports
    /\ state = addCanvasItem(EmptyState, viewport, TabNatural[1], TabNatural[2],
                             "paste", 1, 1)
    /\ undoStack = pushUndo(<< >>, createSnapshot(EmptyState))
    /\ noticeMessage = notice("added", 1, 0)
    /\ isDragActive = FALSE
    /\ interaction = NoInteraction
    /\ active = TRUE
    /\ now = 1
    /\ uuids = 1
    /\ pendingPastes = 0
    /\ pendingCopies = 0
    /\ heap = NoHeap
    /\ shell = NoShell
    /\ drops = << >>
    /\ last = [op |-> "pasted", id |-> 1, a |-> 0, b |-> 0, ids |-> {1},
               files |-> << >>,
               prev |-> [op |-> "paste", id |-> NoId, a |-> 0, b |-> 0]]
    /\ pressed = EmptyState
    /\ log = <<createSnapshot(EmptyState)>>
    /\ budget = MaxTabSteps

\* The toolbar of the hidden tab is not shown, so no button of it is
\* clicked; the window listeners (paste, keydown, drop) stay registered.
NextTabs ==
    \/ switchTab
    \/ handlePaste(Unfocused)
    \/ handlePasteResume("image", TabNatural, now + 1)
    \/ \E key \in {"c", "z", "Delete"} : handleKeyDown(key, Unfocused)
    \/ dragOver
    \/ dragLeave
    \/ \E fileList \in TabBatches : onCanvasDrop(fileList)
    \/ \E d \in 1..Len(drops) : addDroppedFiles(d, now + 1)
    \/ \E itemId \in itemIds(state.items), button \in Buttons :
            startMove(itemId, button)
    \/ \E itemId \in itemIds(state.items), button \in Buttons :
            startResize(itemId, "se", button)
    \/ \E button \in Buttons : clearSelection(button)
    \/ handlePointerMove(PressPoint[1] + KeyDelta[1], PressPoint[2] + KeyDelta[2])
    \/ handlePointerUp

SpecTabs == InitTabs /\ [][NextTabs]_vars
\* ---------------------------------------------------------------------
\* The heap specification: the store as JavaScript objects.  An address is
\* an index of heap.mem.  state.value, every snapshot and every item is an
\* object; an items array is the sequence of the addresses of its items
\* (no array is changed in place: lines 154, 194, 294 and 301 assign a new
\* array built by map, filter or spread).  heap.taken[a] is the content a
\* snapshot had when it was captured.
\* ---------------------------------------------------------------------
NoSession == [itemId |-> NoId]

NoValue == [selectedId |-> NoId]

\* the content of the state or snapshot object at ref
valueOf(h, ref) ==
    LET object == h.mem[ref]
    IN  [items |-> [i \in 1..Len(object.items) |-> h.mem[object.items[i]]],
         selectedId |-> object.selectedId,
         nextZIndex |-> object.nextZIndex,
         placementOffsetIndex |-> object.placementOffsetIndex]

\* a new object
alloc(h, object, value) ==
    [h EXCEPT !.mem = Append(@, object), !.taken = Append(@, value)]

\* lines 70-71: items.map((item) => ({ ...item })), one new object per item
deepCloneItems(h, refs) ==
    [h EXCEPT !.mem = @ \o [i \in 1..Len(refs) |-> h.mem[refs[i]]],
              !.taken = @ \o [i \in 1..Len(refs) |-> NoValue]]

\* the addresses of the objects deepCloneItems(h, refs) creates
clonedRefs(h, refs) == [i \in 1..Len(refs) |-> Len(h.mem) + i]

\* variant: the snapshot is the live state object itself
createSnapshotShared(h) ==
    <<[h EXCEPT !.taken[h.state] = valueOf(h, h.state)], h.state>>

\* lines 73-78: <<the heap with the new snapshot object, its address>>
createSnapshotObject(h) ==
    LET live == h.mem[h.state]
        made == alloc(deepCloneItems(h, live.items),
                      [items |-> clonedRefs(h, live.items),
                       selectedId |-> live.selectedId,
                       nextZIndex |-> live.nextZIndex,
                       placementOffsetIndex |-> live.placementOffsetIndex],
                      valueOf(h, h.state))
    IN  <<made, Len(made.mem)>>

\* lines 80-87: state.value becomes a new object with cloned items
applySnapshotObject(h, snapshot) ==
    LET from == h.mem[snapshot]
        made == alloc(deepCloneItems(h, from.items),
                      [items |-> clonedRefs(h, from.items),
                       selectedId |-> from.selectedId,
                       nextZIndex |-> from.nextZIndex,
                       placementOffsetIndex |-> from.placementOffsetIndex],
                      NoValue)
    IN  [made EXCEPT !.state = Len(made.mem)]

\* lines 101-113: a clone of the snapshot goes on the stack
pushUndoObject(h, snapshot) ==
    LET from == h.mem[snapshot]
        made == alloc(deepCloneItems(h, from.items),
                      [items |-> clonedRefs(h, from.items),
                       selectedId |-> from.selectedId,
                       nextZIndex |-> from.nextZIndex,
                       placementOffsetIndex |-> from.placementOffsetIndex],
                      h.taken[snapshot])
        longer == Append(h.stack, Len(made.mem))
    IN  [made EXCEPT !.stack =
            IF Len(longer) > UNDO_LIMIT
            THEN SubSeq(longer, Len(longer) - UNDO_LIMIT + 1, Len(longer))
            ELSE longer]

\* The mutators of the store (updateItem 150-157, bringToFront 170-172,
\* selectItem 177, enforceImageLimit 194-197, resolveInitialPlacement 252,
\* createCanvasItem 270, addCanvasItem 294-295, removeItem 301-303,
\* clearSelection 720) assign the fields of the state.value object in
\* place; the new items array keeps the object of every item they leave
\* alone and holds a new object for the item they change or add.
assignState(h, st) ==
    LET live == h.mem[h.state]
        before == valueOf(h, h.state).items
        kept(i) == {j \in 1..Len(before) : before[j] = st.items[i]}
        fresh == {i \in 1..Len(st.items) : kept(i) = {}}
        rank(i) == Cardinality({k \in fresh : k <= i})
        nth(n) == CHOOSE i \in fresh : rank(i) = n
        refs == [i \in 1..Len(st.items) |->
                    IF i \in fresh THEN Len(h.mem) + rank(i)
                    ELSE live.items[CHOOSE j \in kept(i) : TRUE]]
        grown == [h EXCEPT
                    !.mem = @ \o [n \in 1..Cardinality(fresh) |-> st.items[nth(n)]],
                    !.taken = @ \o [n \in 1..Cardinality(fresh) |-> NoValue]]
    IN  [grown EXCEPT !.mem[h.state] =
            [items |-> refs, selectedId |-> st.selectedId,
             nextZIndex |-> st.nextZIndex,
             placementOffsetIndex |-> st.placementOffsetIndex]]

liveState == valueOf(heap, heap.state)

\* the heap after construction: the state object of lines 53-58
InitHeap ==
    /\ state = EmptyState
    /\ undoStack = << >>
    /\ noticeMessage = notice("initial", 0, 0)
    /\ isDragActive = FALSE
    /\ interaction = NoInteraction
    /\ active = TRUE
    /\ viewport = CapViewport
    /\ now = 0
    /\ uuids = 0
    /\ pendingPastes = 0
    /\ pendingCopies = 0
    /\ heap = [mem |-> <<[items |-> << >>, selectedId |-> NoId,
                          nextZIndex |-> 1, placementOffsetIndex |-> 0]>>,
               taken |-> <<NoValue>>, state |-> 1, stack |-> << >>,
               session |-> NoSession]
    /\ shell = NoShell
    /\ drops = << >>
    /\ last = [op |-> "init", id |-> NoId, a |-> 0, b |-> 0, ids |-> {},
               files |-> << >>,
               prev |-> NoEvent]
    /\ pressed = EmptyState
    /\ log = << >>
    /\ budget = MaxHeapSteps

\* handlePaste, lines 737-740, with an image read from the clipboard
pasteOnHeap(natural) ==
    LET taken == createSnapshotObject(heap)
        added == assignState(taken[1],
                     addCanvasItem(valueOf(taken[1], taken[1].state), viewport,
                                   natural[1], natural[2], "paste",
                                   uuids + 1, now + 1))
    IN  /\ budget > 0
        /\ budget' = budget - 1
        /\ UNCHANGED shell
        /\ heap' = pushUndoObject(added, taken[2])
        /\ uuids' = uuids + 1
        /\ now' = now + 1
        /\ last' = event("pasted", uuids + 1, 0, 0, {uuids + 1})
        /\ UNCHANGED <<state, undoStack, noticeMessage, isDragActive,
                       interaction, active, viewport, pendingPastes,
                       pendingCopies, drops, pressed, log>>

\* handleKeyDown with Delete: removeSelectedItem, lines 308-324
deleteOnHeap ==
    LET taken == createSnapshotObject(heap)
        removed == assignState(taken[1],
                       removeItem(valueOf(taken[1], taken[1].state),
                                  liveState.selectedId))
    IN  /\ budget > 0
        /\ budget' = budget - 1
        /\ UNCHANGED shell
        /\ heap' = IF liveState.selectedId = NoId
                      \/ ~hasItem(liveState, liveState.selectedId)
                   THEN heap
                   ELSE pushUndoObject(removed, taken[2])
        /\ last' = event("Delete", liveState.selectedId, 0, 0, {})
        /\ UNCHANGED <<state, undoStack, noticeMessage, isDragActive,
                       interaction, active, viewport, now, uuids, pendingPastes,
                       pendingCopies, drops, pressed, log>>

\* undo, lines 115-128
undoOnHeap ==
    /\ budget > 0
    /\ budget' = budget - 1
    /\ UNCHANGED shell
    /\ heap' = IF heap.stack = << >> \/ heap.session # NoSession
               THEN heap
               ELSE applySnapshotObject(
                        [heap EXCEPT !.stack = SubSeq(@, 1, Len(@) - 1)],
                        heap.stack[Len(heap.stack)])
    /\ last' = event("undo", NoId, 0, 0, {})
    /\ UNCHANGED <<state, undoStack, noticeMessage, isDragActive, interaction,
                   active, viewport, now, uuids, pendingPastes, pendingCopies,
                   drops, pressed, log>>

\* startMove, lines 652-680
startMoveOnHeap(itemId) ==
    LET item == getItemById(liveState, itemId)
        taken == createSnapshotObject(heap)
        selected == assignState(taken[1],
                        selectItem(valueOf(taken[1], taken[1].state), itemId))
    IN  /\ budget > 0
        /\ budget' = budget - 1
        /\ UNCHANGED shell
        /\ heap.session = NoSession
        /\ hasItem(liveState, itemId)
        /\ heap' = [selected EXCEPT !.session =
                       [itemId |-> itemId, startX |-> item.x, startY |-> item.y,
                        startSnapshot |-> taken[2]]]
        /\ last' = event("startMove", itemId, 0, 0, {})
        /\ UNCHANGED <<state, undoStack, noticeMessage, isDragActive,
                       interaction, active, viewport, now, uuids, pendingPastes,
                       pendingCopies, drops, pressed, log>>

\* handlePointerMove of a move session, lines 615-639
pointerMoveOnHeap(deltaX, deltaY) ==
    /\ budget > 0
    /\ budget' = budget - 1
    /\ UNCHANGED shell
    /\ heap.session # NoSession
    /\ heap' = IF ~hasItem(liveState, heap.session.itemId)
               THEN [heap EXCEPT !.session = NoSession]
               ELSE assignState(heap,
                        updateItem(liveState, heap.session.itemId,
                            computeMove(heap.session,
                                        getItemById(liveState, heap.session.itemId),
                                        deltaX, deltaY)))
    /\ last' = event("pointerMove", heap.session.itemId, deltaX, deltaY, {})
    /\ UNCHANGED <<state, undoStack, noticeMessage, isDragActive, interaction,
                   active, viewport, now, uuids, pendingPastes, pendingCopies,
                   drops, pressed, log>>

\* handlePointerUp: stopInteraction(true), lines 458-472
pointerUpOnHeap ==
    LET current == createSnapshotObject([heap EXCEPT !.session = NoSession])
        start == heap.session.startSnapshot
    IN  /\ budget > 0
        /\ budget' = budget - 1
        /\ UNCHANGED shell
        /\ heap.session # NoSession
        /\ heap' = IF isUndoTargetChanged(valueOf(current[1], start),
                                          valueOf(current[1], current[2]))
                   THEN pushUndoObject(current[1], start)
                   ELSE current[1]
        /\ last' = event("moveUp", heap.session.itemId, 0, 0, {})
        /\ UNCHANGED <<state, undoStack, noticeMessage, isDragActive,
                       interaction, active, viewport, now, uuids, pendingPastes,
                       pendingCopies, drops, pressed, log>>

\* clearSelection, lines 715-721
clearSelectionOnHeap ==
    /\ budget > 0
    /\ budget' = budget - 1
    /\ UNCHANGED shell
    /\ heap.session = NoSession
    /\ heap' = [heap EXCEPT !.mem[heap.state].selectedId = NoId]
    /\ last' = event("clearSelection", liveState.selectedId, 0, 0, {})
    /\ UNCHANGED <<state, undoStack, noticeMessage, isDragActive, interaction,
                   active, viewport, now, uuids, pendingPastes, pendingCopies,
                   drops, pressed, log>>

NextHeap ==
    \/ pasteOnHeap(TabNatural)
    \/ deleteOnHeap
    \/ undoOnHeap
    \/ \E itemId \in itemIds(liveState.items) : startMoveOnHeap(itemId)
    \/ \E delta \in {KeyDelta, <<2000, 0>>} : pointerMoveOnHeap(delta[1], delta[2])
    \/ pointerUpOnHeap
    \/ clearSelectionOnHeap

SpecHeap == InitHeap /\ [][NextHeap]_vars
\* ---------------------------------------------------------------------
\* The pin specification: the main process (main.ts) and its preferences
\* file (preferences-store.ts).  A text is the sequence of its JSON tokens.
\* ---------------------------------------------------------------------
canvasVars ==
    <<state, undoStack, noticeMessage, isDragActive, interaction, active,
      viewport, now, uuids, pendingPastes, pendingCopies, heap, drops,
      pressed, log>>

\* fs.existsSync is false
Missing == <<"ENOENT">>

NoWindow == [open |-> FALSE]

DEFAULT_PREFERENCES == [alwaysOnTop |-> FALSE]

Undefined == [type |-> "undefined"]

\* the value of a JSON literal
literal(token) ==
    IF token = "true" THEN [type |-> "boolean", value |-> TRUE]
    ELSE IF token = "false" THEN [type |-> "boolean", value |-> FALSE]
    ELSE IF token = "null" THEN [type |-> "null"]
    ELSE IF token = "1" THEN [type |-> "number"]
    ELSE [type |-> "string"]

Literals == {"true", "false", "null", "1", "\"true\""}

SyntaxError == [type |-> "SyntaxError"]

\* JSON.parse of the texts a preferences file is tried with
parsePreferences(rawText) ==
    IF Len(rawText) = 1 /\ rawText[1] \in Literals
    THEN literal(rawText[1])
    ELSE IF rawText = <<"{", "}">>
    THEN [type |-> "object", alwaysOnTop |-> Undefined]
    ELSE IF /\ Len(rawText) = 5
            /\ <<rawText[1], rawText[2], rawText[3], rawText[5]>>
                  = <<"{", "alwaysOnTop", ":", "}">>
            /\ rawText[4] \in Literals
    THEN [type |-> "object", alwaysOnTop |-> literal(rawText[4])]
    ELSE SyntaxError

\* JSON.stringify(preferences, null, 2)
stringifyPreferences(preferences) ==
    <<"{", "alwaysOnTop", ":",
      IF preferences.alwaysOnTop THEN "true" ELSE "false", "}">>

\* variant: any truthy stored value switches the pin on
sanitizeTruthy(value) ==
    [alwaysOnTop |->
        IF value.type = "object"
        THEN IF value.alwaysOnTop.type = "boolean"
             THEN value.alwaysOnTop.value
             ELSE value.alwaysOnTop.type \in {"number", "string"}
        ELSE FALSE]

\* lines 44-51 of preferences-store.ts; a property of a number, a string or
\* a boolean is undefined
sanitize(value) ==
    [alwaysOnTop |->
        IF value.type = "object" /\ value.alwaysOnTop.type = "boolean"
        THEN value.alwaysOnTop.value
        ELSE DEFAULT_PREFERENCES.alwaysOnTop]

\* lines 20-32: read(); JSON.parse throws on a text that is no JSON, and
\* sanitize throws on null
readPreferences(file) ==
    IF file = Missing THEN DEFAULT_PREFERENCES
    ELSE LET parsed == parsePreferences(file)
         IN  IF parsed.type \in {"SyntaxError", "null"}
             THEN DEFAULT_PREFERENCES
             ELSE sanitize(parsed)

\* the contents the preferences file is tried with
PreferenceFiles ==
    {Missing, << >>, <<"{">>, <<"null">>, <<"1">>, <<"{", "}">>}
        \cup {<<"{", "alwaysOnTop", ":", token, "}">> : token \in Literals}

WriteOutcomes == {"written", "throw", "truncated"}

\* app.whenReady: createMainWindow, main.ts lines 45-65
launch ==
    /\ budget > 0
    /\ budget' = budget - 1
    /\ shell.mainWindow = NoWindow
    /\ shell' = [shell EXCEPT !.mainWindow =
                    [open |-> TRUE,
                     alwaysOnTop |->
                        readPreferences(shell.preferencesFile).alwaysOnTop]]
    /\ last' = event("launch", NoId, 0, 0, {})
    /\ UNCHANGED canvasVars

\* the application is closed
quit ==
    /\ budget > 0
    /\ budget' = budget - 1
    /\ shell.mainWindow # NoWindow
    /\ shell' = [shell EXCEPT !.mainWindow = NoWindow]
    /\ last' = event("quit", NoId, 0, 0, {})
    /\ UNCHANGED canvasVars

\* the handler of window:getAlwaysOnTop, main.ts lines 152-157
getAlwaysOnTop ==
    /\ budget > 0
    /\ budget' = budget - 1
    /\ shell.mainWindow # NoWindow
    /\ last' = event("getAlwaysOnTop", NoId,
                     IF shell.mainWindow.alwaysOnTop THEN 1 ELSE 0, 0, {})
    /\ UNCHANGED shell
    /\ UNCHANGED canvasVars

\* the handler of window:setAlwaysOnTop, main.ts lines 159-169, with
\* PreferencesStore.setAlwaysOnTop and write; the write of the file
\* succeeds, throws before it has opened the file, or throws after it has
\* emptied it
setAlwaysOnTop(enabled, outcome) ==
    LET normalized == enabled
        nextPreferences ==
            [readPreferences(shell.preferencesFile)
                EXCEPT !.alwaysOnTop = normalized]
    IN  /\ budget > 0
        /\ budget' = budget - 1
        /\ shell.mainWindow # NoWindow
        /\ shell' = [shell EXCEPT
                        !.mainWindow = [open |-> TRUE, alwaysOnTop |-> normalized],
                        !.preferencesFile =
                            IF outcome = "written"
                            THEN stringifyPreferences(nextPreferences)
                            ELSE IF outcome = "truncated" THEN << >>
                            ELSE @,
                        !.lastSet = IF outcome = "written"
                                    THEN [completed |-> TRUE, e |-> normalized]
                                    ELSE [completed |-> FALSE, e |-> normalized]]
        /\ last' = event(IF outcome = "written" THEN "setAlwaysOnTop"
                         ELSE "setAlwaysOnTopThrow",
                         NoId, IF normalized THEN 1 ELSE 0, 0, {})
        /\ UNCHANGED canvasVars

\* before the first launch, with any content of the preferences file
InitPin ==
    /\ state = EmptyState
    /\ undoStack = << >>
    /\ noticeMessage = notice("initial", 0, 0)
    /\ isDragActive = FALSE
    /\ interaction = NoInteraction
    /\ active = TRUE
    /\ viewport = CapViewport
    /\ now = 0
    /\ uuids = 0
    /\ pendingPastes = 0
    /\ pendingCopies = 0
    /\ heap = NoHeap
    /\ \E file \in PreferenceFiles :
          shell = [preferencesFile |-> file, mainWindow |-> NoWindow,
                   lastSet |-> [completed |-> FALSE, e |-> FALSE]]
    /\ drops = << >>
    /\ last = [op |-> "init", id |-> NoId, a |-> 0, b |-> 0, ids |-> {},
               files |-> << >>,
               prev |-> NoEvent]
    /\ pressed = EmptyState
    /\ log = << >>
    /\ budget = MaxPinSteps

NextPin ==
    \/ launch
    \/ quit
    \/ getAlwaysOnTop
    \/ \E enabled \in BOOLEAN, outcome \in WriteOutcomes :
            setAlwaysOnTop(enabled, outcome)

SpecPin == InitPin /\ [][NextPin]_vars
\* ---------------------------------------------------------------------
\* The tasks specification: TasksTab.vue and its localStorage entry.  A
\* text is the sequence of its characters; a stored JSON text is kept as
\* the structure it parses to, every value with its JSON type.
\* ---------------------------------------------------------------------
RECURSIVE trimStart(_)
trimStart(text) ==
    IF text # << >> /\ Head(text) = " " THEN trimStart(Tail(text)) ELSE text

RECURSIVE trimEnd(_)
trimEnd(text) ==
    IF text # << >> /\ text[Len(text)] = " "
    THEN trimEnd(SubSeq(text, 1, Len(text) - 1))
    ELSE text

\* String.prototype.trim
trim(text) == trimEnd(trimStart(text))

\* localStorage.getItem gives null
NoRaw == [json |-> "null key"]

jsonString(value) == [type |-> "string", value |-> value]
jsonNumber(value) == [type |-> "number", value |-> value]

\* JSON.stringify(tasks.value): an array of objects with a string id, a
\* string text and a number createdAt
stringifyTasks(list) ==
    [json |-> "array",
     elements |-> [i \in 1..Len(list) |->
                      [type |-> "object", id |-> jsonString(list[i].id),
                       text |-> jsonString(list[i].text),
                       createdAt |-> jsonNumber(list[i].createdAt)]]]

\* variant: the watcher does not write
persistTasksSkipped(list) == shell.localStorage

\* lines 1058-1060 and 1110-1116: the watcher of tasks calls persistTasks
\* in the flush that follows the handler
persistTasks(list) == stringifyTasks(list)

\* the filter of lines 1069-1074 on one parsed element
isTaskItem(element) ==
    /\ element.id.type = "string"
    /\ element.text.type = "string"
    /\ element.createdAt.type = "number"

\* lines 1062-1080: the tasks loaded from the stored text.  An empty text
\* counts as none; JSON.parse throws on a text that is no JSON, filter is
\* no function of a parsed object, and a property of a null element cannot
\* be read: each of these leaves no task.
loadTasks(raw) ==
    IF raw = NoRaw \/ raw.json \in {"empty text", "syntax error", "object"}
    THEN << >>
    ELSE IF \E i \in 1..Len(raw.elements) : raw.elements[i].type = "null"
    THEN << >>
    ELSE LET kept == SelectSeq(raw.elements, isTaskItem)
         IN  [i \in 1..Len(kept) |->
                 [id |-> kept[i].id.value, text |-> kept[i].text.value,
                  createdAt |-> kept[i].createdAt.value]]

\* what the input field is filled with
Drafts == {<< >>, <<" ", " ">>, <<" ", "a", " ">>, <<"b">>}

\* what localStorage holds at the first start
StoredTexts ==
    {NoRaw, [json |-> "empty text"], [json |-> "syntax error"],
     [json |-> "object"],
     stringifyTasks(<<[id |-> 1, text |-> <<"c">>, createdAt |-> 1]>>),
     [json |-> "array",
      elements |-> <<[type |-> "object", id |-> jsonString(1),
                      text |-> jsonString(<<"c">>),
                      createdAt |-> jsonString(<<"1">>)],
                     [type |-> "object", id |-> jsonString(2),
                      text |-> jsonString(<<"d">>),
                      createdAt |-> jsonNumber(2)]>>],
     [json |-> "array",
      elements |-> <<[type |-> "null"],
                     [type |-> "object", id |-> jsonString(2),
                      text |-> jsonString(<<"d">>),
                      createdAt |-> jsonNumber(2)]>>]}

\* the component is created and mounted: onMounted, lines 1106-1108, and
\* the watcher that follows the assignment of tasks
mountTasksTab ==
    LET loaded == loadTasks(shell.localStorage)
    IN  /\ budget > 0
        /\ budget' = budget - 1
        /\ shell' = [shell EXCEPT !.tasks = loaded,
                                  !.localStorage = persistTasks(loaded),
                                  !.draftTask = << >>,
                                  !.hintMessage = "initial",
                                  !.mounted = TRUE]
        /\ last' = event("mount", NoId, 0, 0, {})
        /\ UNCHANGED canvasVars

\* typing into the input field (v-model, line 1126)
inputDraft(text) ==
    /\ budget > 0
    /\ budget' = budget - 1
    /\ shell.mounted
    /\ text # shell.draftTask
    /\ shell' = [shell EXCEPT !.draftTask = text]
    /\ last' = event("input", NoId, 0, 0, {})
    /\ UNCHANGED canvasVars

\* submit of the form: addTask, lines 1082-1099, and the watcher
addTask ==
    LET text == trim(shell.draftTask)
        added == <<[id |-> shell.uuids + 1, text |-> text,
                    createdAt |-> shell.now + 1]>> \o shell.tasks
    IN  /\ budget > 0
        /\ budget' = budget - 1
        /\ shell.mounted
        /\ shell' = IF text = << >>
                    THEN [shell EXCEPT !.hintMessage = "blank"]
                    ELSE [shell EXCEPT !.tasks = added,
                                       !.localStorage = persistTasks(added),
                                       !.draftTask = << >>,
                                       !.hintMessage = "checkToRemove",
                                       !.uuids = @ + 1,
                                       !.now = @ + 1]
        /\ last' = event("addTask", IF text = << >> THEN NoId
                                    ELSE shell.uuids + 1, 0, 0, {})
        /\ UNCHANGED canvasVars

\* change of the checkbox of a task: completeTask, lines 1101-1104, and
\* the watcher
completeTask(taskId) ==
    LET left == SelectSeq(shell.tasks, LAMBDA task : task.id # taskId)
    IN  /\ budget > 0
        /\ budget' = budget - 1
        /\ shell.mounted
        /\ \E i \in 1..Len(shell.tasks) : shell.tasks[i].id = taskId
        /\ shell' = [shell EXCEPT !.tasks = left,
                                  !.localStorage = persistTasks(left),
                                  !.hintMessage = "removed"]
        /\ last' = event("completeTask", taskId, 0, 0, {})
        /\ UNCHANGED canvasVars

\* before the window is first opened, with any content of localStorage
InitTasks ==
    /\ state = EmptyState
    /\ undoStack = << >>
    /\ noticeMessage = notice("initial", 0, 0)
    /\ isDragActive = FALSE
    /\ interaction = NoInteraction
    /\ active = TRUE
    /\ viewport = CapViewport
    /\ now = 0
    /\ uuids = 0
    /\ pendingPastes = 0
    /\ pendingCopies = 0
    /\ heap = NoHeap
    /\ \E raw \in StoredTexts :
          shell = [tasks |-> << >>, localStorage |-> raw, draftTask |-> << >>,
                   hintMessage |-> "initial", mounted |-> FALSE,
                   uuids |-> 2, now |-> 2]
    /\ drops = << >>
    /\ last = [op |-> "init", id |-> NoId, a |-> 0, b |-> 0, ids |-> {},
               files |-> << >>,
               prev |-> NoEvent]
    /\ pressed = EmptyState
    /\ log = << >>
    /\ budget = MaxTaskSteps

NextTasks ==
    \/ mountTasksTab
    \/ \E text \in Drafts : inputDraft(text)
    \/ addTask
    \/ \E taskId \in 1..shell.uuids : completeTask(taskId)

SpecTasks == InitTasks /\ [][NextTasks]_vars
\* ---------------------------------------------------------------------
\* The size specification: normalizeInitialSize on the natural size of a
\* decoded image.
\* ---------------------------------------------------------------------
\* image.naturalWidth and image.naturalHeight: sides around each limit of
\* the function, up to MaxNaturalSide
NaturalSides ==
    {0, 1, 2, 23, 24, 25, 79, 80, 81, 200, 419, 420, 421, 839, 840, 1680,
     MaxNaturalSide \div 2, MaxNaturalSide}

NoSize == [width |-> 0, height |-> 0]

\* line 266: createCanvasItem computes the size of the image it was given
sizeImage ==
    /\ budget > 0
    /\ budget' = budget - 1
    /\ ~shell.sized
    /\ shell' = [shell EXCEPT
                    !.size = normalizeInitialSize(shell.naturalWidth,
                                                  shell.naturalHeight),
                    !.sized = TRUE]
    /\ last' = event("sizeImage", NoId, shell.naturalWidth,
                     shell.naturalHeight, {})
    /\ UNCHANGED canvasVars

\* an image of any natural size has been decoded
InitSize ==
    /\ state = EmptyState
    /\ undoStack = << >>
    /\ noticeMessage = notice("initial", 0, 0)
    /\ isDragActive = FALSE
    /\ interaction = NoInteraction
    /\ active = TRUE
    /\ viewport = CapViewport
    /\ now = 0
    /\ uuids = 0
    /\ pendingPastes = 0
    /\ pendingCopies = 0
    /\ heap = NoHeap
    /\ \E naturalWidth \in NaturalSides, naturalHeight \in NaturalSides :
          shell = [naturalWidth |-> naturalWidth,
                   naturalHeight |-> naturalHeight,
                   size |-> NoSize, sized |-> FALSE]
    /\ drops = << >>
    /\ last = [op |-> "init", id |-> NoId, a |-> 0, b |-> 0, ids |-> {},
               files |-> << >>,
               prev |-> NoEvent]
    /\ pressed = EmptyState
    /\ log = << >>
    /\ budget = MaxSizeSteps

NextSize == sizeImage

SpecSize == InitSize /\ [][NextSize]_vars

\* ---------------------------------------------------------------------
\* The sink specification: writeClipboardImage of the main process
\* (main.ts, lines 96-144) and the clipboard of the operating system.  A
\* base64 text is the sequence of its characters: "P" stands for the
\* encoding of a PNG image, "J" for the encoding of bytes that are no
\* image, "!" for a character outside the base64 alphabet.
\* ---------------------------------------------------------------------
NoPayload == [kind |-> "null"]

\* lines 12-15, as the renderer may send it
imagePayload(mimeType, base64) ==
    [kind |-> "object", mimeType |-> mimeType, base64 |-> base64]

\* a base64 field that is no string
NotAString == [type |-> "number", text |-> << >>]

\* a base64 field that is a string
base64Text(text) == [type |-> "string", text |-> text]

Payloads ==
    {NoPayload} \cup
    {imagePayload(mimeType, base64) :
        mimeType \in {<<"image", "png">>, <<"image", "jpeg">>},
        base64 \in {NotAString} \cup
                   {base64Text(text) :
                       text \in {<< >>, <<" ", " ">>, <<"P">>, <<" ", "P", " ">>,
                                 <<"J">>, <<"!">>, <<"!", "P">>}}}

\* Buffer.from(text, "base64"): characters outside the alphabet are skipped
bufferFrom(text) == SelectSeq(text, LAMBDA c : c \in {"P", "J"})

\* an image, or nativeImage.createEmpty()
EmptyImage == [isEmpty |-> TRUE]
imageOf(bytes) == [isEmpty |-> FALSE, bytes |-> bytes]

\* nativeImage.createFromBuffer: empty for bytes that are no image
createFromBuffer(bytes) ==
    IF bytes # << >> /\ bytes[1] = "P" THEN imageOf(bytes) ELSE EmptyImage

\* lines 112-130: the image decoded from the text, with the outcome of
\* createFromDataURL given (an image, "empty" or "throw")
decodeImage(normalizedBase64, fromDataUrl) ==
    LET buffer == bufferFrom(normalizedBase64)
        image == IF Len(buffer) > 0 THEN createFromBuffer(buffer)
                 ELSE EmptyImage
    IN  IF ~image.isEmpty THEN image
        ELSE IF fromDataUrl = "image" THEN imageOf(normalizedBase64)
        ELSE EmptyImage

\* variant: the payload is not looked at before it is decoded
isInvalidPayloadLax(payload) == payload = NoPayload

\* lines 97-110
isInvalidPayload(payload) ==
    \/ payload = NoPayload
    \/ payload.mimeType # <<"image", "png">>
    \/ payload.base64.type # "string"
    \/ Len(payload.base64.text) = 0
    \/ Len(trim(payload.base64.text)) = 0

\* what clipboard.writeImage may do: replace the content, throw, leave the
\* clipboard empty, or return with the content as it was
SinkWriteOutcomes == {"written", "throw", "emptied", "kept"}

\* what createFromDataURL may do with a text that createFromBuffer refused
DataUrlOutcomes == {"image", "empty", "throw"}

Ok == [ok |-> TRUE, reason |-> "none"]
failure(reason) == [ok |-> FALSE, reason |-> reason]

\* the handler of clipboard:writeImage: writeClipboardImage(payload)
writeClipboardImage(payload, fromDataUrl, outcome, readThrows) ==
    LET image == IF payload = NoPayload \/ payload.base64.type # "string"
                 THEN EmptyImage
                 ELSE decodeImage(trim(payload.base64.text), fromDataUrl)
        reached == ~isInvalidPayload(payload) /\ ~image.isEmpty
        content == IF ~reached \/ outcome \in {"throw", "kept"}
                   THEN shell.clipboard
                   ELSE IF outcome = "written" THEN image ELSE EmptyImage
        result == IF isInvalidPayload(payload) THEN failure("invalid_payload")
                  ELSE IF image.isEmpty THEN failure("decode_failed")
                  ELSE IF outcome = "throw" \/ readThrows
                  THEN failure("write_failed")
                  ELSE IF content.isEmpty THEN failure("write_failed")
                  ELSE Ok
    IN  /\ budget > 0
        /\ budget' = budget - 1
        /\ shell' = [shell EXCEPT
                        !.clipboard = content,
                        !.payload = payload,
                        !.result = result,
                        !.writeCalls = IF reached THEN @ + 1 ELSE @,
                        !.writeReturns =
                            IF reached /\ outcome # "throw" THEN @ + 1 ELSE @,
                        !.readBack =
                            IF reached /\ outcome # "throw" /\ ~readThrows
                            THEN IF content.isEmpty THEN "empty" ELSE "image"
                            ELSE "none"]
        /\ last' = event("writeClipboardImage", NoId, 0, 0, {})
        /\ UNCHANGED canvasVars

\* another program puts an image on the clipboard or clears it
osCopy(content) ==
    /\ budget > 0
    /\ budget' = budget - 1
    /\ content # shell.clipboard
    /\ shell' = [shell EXCEPT !.clipboard = content, !.readBack = "none"]
    /\ last' = event("osCopy", NoId, 0, 0, {})
    /\ UNCHANGED canvasVars

InitSink ==
    /\ state = EmptyState
    /\ undoStack = << >>
    /\ noticeMessage = notice("initial", 0, 0)
    /\ isDragActive = FALSE
    /\ interaction = NoInteraction
    /\ active = TRUE
    /\ viewport = CapViewport
    /\ now = 0
    /\ uuids = 0
    /\ pendingPastes = 0
    /\ pendingCopies = 0
    /\ heap = NoHeap
    /\ shell = [clipboard |-> EmptyImage, payload |-> NoPayload,
                result |-> failure("none"),
                writeCalls |-> 0, writeReturns |-> 0, readBack |-> "none"]
    /\ drops = << >>
    /\ last = [op |-> "init", id |-> NoId, a |-> 0, b |-> 0, ids |-> {},
               files |-> << >>,
               prev |-> NoEvent]
    /\ pressed = EmptyState
    /\ log = << >>
    /\ budget = MaxSinkSteps

NextSink ==
    \/ \E payload \in Payloads, fromDataUrl \in DataUrlOutcomes,
          outcome \in SinkWriteOutcomes, readThrows \in BOOLEAN :
            writeClipboardImage(payload, fromDataUrl, outcome, readThrows)
    \/ \E content \in {EmptyImage, imageOf(<<"O">>)} : osCopy(content)

SpecSink == InitSink /\ [][NextSink]_vars

\* ---------------------------------------------------------------------
\* Properties
\* ---------------------------------------------------------------------
itemOf(items, itemId) ==
    items[CHOOSE i \in 1..Len(items) : items[i].id = itemId]

geometryOf(items) ==
    {<<items[i].id, items[i].x, items[i].y, items[i].width, items[i].height>> :
        i \in 1..Len(items)}

stackingOf(items) == {<<items[i].id, items[i].zIndex>> : i \in 1..Len(items)}

insideCanvas(item) ==
    /\ 0 <= item.x
    /\ 0 <= item.y
    /\ item.x + item.width <= CANVAS_WIDTH
    /\ item.y + item.height <= CANVAS_HEIGHT
    /\ item.width >= MIN_SIZE
    /\ item.height >= MIN_SIZE

\* v limited to lo..hi (lo <= hi)
limited(v, lo, hi) == IF v < lo THEN lo ELSE IF v > hi THEN hi ELSE v

undoEvents == {"undo", "z"}
addEvents == {"pasted", "dropStep", "dropDone"}

\* C1: in every reachable state every item on the canvas lies inside the
\* 2000 x 2000 canvas and is at least 24 x 24.
C1_ItemsInsideCanvas ==
    \A i \in 1..Len(state.items) : insideCanvas(state.items[i])

\* an east-edge resize dragged 2000px to the right has stopped at the canvas edge
C1_Witness ==
    /\ last.op = "pointerMove"
    /\ last.a = 2000
    /\ interaction # NoInteraction
    /\ interaction.mode = "resize"
    /\ interaction.handle = "e"
    /\ hasItem(state, interaction.itemId)
    /\ LET item == itemOf(state.items, interaction.itemId)
       IN  /\ item.x + item.width = CANVAS_WIDTH
           /\ item.width > interaction.startWidth

\* C3: an undo right after the release of a move that changed the item's
\* position restores the geometry of every item as it was before the press.
C3_UndoRestoresMove ==
    [][(/\ last.op = "moveUp"
        /\ hasItem(state, last.id)
        /\ hasItem(pressed, last.id)
        /\ \/ itemOf(state.items, last.id).x # itemOf(pressed.items, last.id).x
           \/ itemOf(state.items, last.id).y # itemOf(pressed.items, last.id).y
        /\ last'.op \in undoEvents)
       => geometryOf(state'.items) = geometryOf(pressed.items)]_vars

\* an undo has followed the release of a move that had changed the position
C3_Witness ==
    /\ last.op \in undoEvents
    /\ last.prev.op = "moveUp"
    /\ last.prev.a = 1
    /\ state.items # << >>
    /\ geometryOf(state.items) = geometryOf(pressed.items)

\* C7: a press on the item that is already selected and already topmost
\* changes no z-index and does not consume the z-index counter.
C7_SelectTopmostIsNoOp ==
    [][(/\ last'.op \in {"startMove", "startResize"}
        /\ last'.id = state.selectedId
        /\ hasItem(state, last'.id)
        /\ \A i \in 1..Len(state.items) :
              state.items[i].zIndex <= itemOf(state.items, last'.id).zIndex)
       => /\ stackingOf(state'.items) = stackingOf(state.items)
          /\ state'.nextZIndex = state.nextZIndex]_vars

\* the selected topmost of several items has been pressed a second time
C7_Witness ==
    /\ last.op = "startMove"
    /\ last.prev.op = "moveUp"
    /\ last.prev.id = last.id
    /\ Len(state.items) >= 2
    /\ pressed.selectedId = last.id
    /\ \A i \in 1..Len(pressed.items) :
          pressed.items[i].zIndex <= itemOf(pressed.items, last.id).zIndex
    /\ state.nextZIndex = pressed.nextZIndex

\* the candidate position for a width x height item at offset k under the
\* current viewport: centred on the viewport centre, shifted by 24 k
candidateX(width, k) ==
    (2 * viewport.scrollLeft + viewport.clientWidth - width + 48 * k + 1) \div 2
candidateY(height, k) ==
    (2 * viewport.scrollTop + viewport.clientHeight - height + 48 * k + 1) \div 2

candidateOutside(width, height, k) ==
    \/ candidateX(width, k) < 0
    \/ candidateY(height, k) < 0
    \/ candidateX(width, k) + width > CANVAS_WIDTH
    \/ candidateY(height, k) + height > CANVAS_HEIGHT

\* this step added an item that is on the canvas afterwards
addStep == last'.op \in addEvents /\ last'.id # NoId /\ hasItem(state', last'.id)

\* the id of the item added by the event before this step (a paste event
\* that only starts the clipboard read does not count as an event between)
previousAdd ==
    IF last.op \in addEvents THEN last.id
    ELSE IF last.op = "paste" /\ last.prev.op \in addEvents THEN last.prev.id
    ELSE NoId

\* the add of this step directly follows the add of a same-size item
followsSameSize ==
    /\ previousAdd # NoId
    /\ hasItem(state, previousAdd)
    /\ itemOf(state.items, previousAdd).width = itemOf(state'.items, last'.id).width
    /\ itemOf(state.items, previousAdd).height = itemOf(state'.items, last'.id).height

\* C9 as stated: consecutive same-size adds are 24px apart on both axes; an
\* add whose candidate falls outside the canvas lands exactly on the centred
\* position; the stored offset is one more than the offset used.
C9_Original ==
    [][addStep =>
        LET new == itemOf(state'.items, last'.id)
            k == state.placementOffsetIndex
            out == candidateOutside(new.width, new.height, k)
        IN  /\ (followsSameSize /\ ~out) =>
                 /\ new.x = itemOf(state.items, previousAdd).x + PLACEMENT_OFFSET_STEP
                 /\ new.y = itemOf(state.items, previousAdd).y + PLACEMENT_OFFSET_STEP
            /\ out => /\ new.x = candidateX(new.width, 0)
                      /\ new.y = candidateY(new.height, 0)
            /\ state'.placementOffsetIndex = (IF out THEN 0 ELSE k) + 1]_vars

\* C9 (amended): as C9, where the centred position is limited to the canvas
\* when the item lands on it, and the 24px step from the previous item holds
\* when that centred position lies inside the canvas.
C9_Placement ==
    [][addStep =>
        LET new == itemOf(state'.items, last'.id)
            k == state.placementOffsetIndex
            out == candidateOutside(new.width, new.height, k)
        IN  /\ (followsSameSize /\ ~out
                    /\ ~candidateOutside(new.width, new.height, 0)) =>
                 /\ new.x = itemOf(state.items, previousAdd).x + PLACEMENT_OFFSET_STEP
                 /\ new.y = itemOf(state.items, previousAdd).y + PLACEMENT_OFFSET_STEP
            /\ out => /\ new.x = limited(candidateX(new.width, 0), 0,
                                          CANVAS_WIDTH - new.width)
                      /\ new.y = limited(candidateY(new.height, 0), 0,
                                          CANVAS_HEIGHT - new.height)
            /\ state'.placementOffsetIndex = (IF out THEN 0 ELSE k) + 1]_vars

\* a second item has been added whose candidate one step further fell outside
\* the canvas: it lies on the centred position, and the stored offset is 1
C9_Witness ==
    /\ last.op \in addEvents
    /\ hasItem(state, last.id)
    /\ Len(state.items) >= 2
    /\ state.placementOffsetIndex = 1
    /\ LET new == itemOf(state.items, last.id)
       IN  /\ ~candidateOutside(new.width, new.height, 0)
           /\ candidateOutside(new.width, new.height, 1)
           /\ new.x = candidateX(new.width, 0)
           /\ new.y = candidateY(new.height, 0)

\* files of a batch that decode / fail to decode
decoded(files) == Cardinality({i \in 1..Len(files) : files[i] = "img"})
failed(files) == Cardinality({i \in 1..Len(files) : files[i] = "bad"})

sessionMove(mode) ==
    /\ last'.op = "pointerMove"
    /\ interaction # NoInteraction
    /\ interaction.mode = mode
    /\ hasItem(state, interaction.itemId)
    /\ hasItem(pressed, interaction.itemId)

\* C2: a pointer move of a Move session puts the item at the position it had
\* at the press plus the pointer delta, limited per axis to [0, 2000 - size],
\* leaves its size alone and so keeps it inside the canvas.
C2_MoveClamped ==
    [][sessionMove("move") =>
        LET before == itemOf(state.items, interaction.itemId)
            start == itemOf(pressed.items, interaction.itemId)
            after == itemOf(state'.items, interaction.itemId)
        IN  /\ after.width = before.width
            /\ after.height = before.height
            /\ after.x = limited(start.x + last'.a, 0, CANVAS_WIDTH - before.width)
            /\ after.y = limited(start.y + last'.b, 0, CANVAS_HEIGHT - before.height)
            /\ insideCanvas(after)]_vars

\* an item pressed left of the right border has been dragged 2000px to the
\* right and stands at x = 2000 - width
C2_Witness ==
    /\ last.op = "pointerMove"
    /\ last.a = 2000
    /\ interaction # NoInteraction
    /\ interaction.mode = "move"
    /\ hasItem(state, interaction.itemId)
    /\ LET item == itemOf(state.items, interaction.itemId)
           start == itemOf(pressed.items, interaction.itemId)
       IN  /\ start.x < CANVAS_WIDTH - item.width
           /\ item.x = CANVAS_WIDTH - item.width

\* some scale s has width = round(startWidth * s), height = round(startHeight * s):
\* the intervals of s that round to width and to height overlap
commonScale(width, height, startWidth, startHeight) ==
    /\ (2 * width - 1) * startHeight < (2 * height + 1) * startWidth
    /\ (2 * height - 1) * startWidth < (2 * width + 1) * startHeight

\* C8: a pointer move of a resize session on a corner handle leaves the item
\* with a width and a height that are the width and the height it had at the
\* press, times one common scale, each rounded.
C8_CornerKeepsAspect ==
    [][(sessionMove("resize") /\ isCornerHandle(interaction.handle)) =>
        LET start == itemOf(pressed.items, interaction.itemId)
            after == itemOf(state'.items, interaction.itemId)
        IN  commonScale(after.width, after.height, start.width, start.height)]_vars

\* a corner resize has changed the size of an item that is not square, to a
\* size that is neither the smallest nor the largest the canvas allows
C8_Witness ==
    /\ last.op = "pointerMove"
    /\ interaction # NoInteraction
    /\ interaction.mode = "resize"
    /\ isCornerHandle(interaction.handle)
    /\ hasItem(state, interaction.itemId)
    /\ LET item == itemOf(state.items, interaction.itemId)
           start == itemOf(pressed.items, interaction.itemId)
       IN  /\ start.width # start.height
           /\ item.width # start.width
           /\ item.width > MIN_SIZE /\ item.height > MIN_SIZE
           /\ insideCanvas(item)
           /\ item.x > 0 /\ item.y > 0
           /\ item.x + item.width < CANVAS_WIDTH
           /\ item.y + item.height < CANVAS_HEIGHT


\* the last k entries of a sequence
lastOf(s, k) == IF Len(s) <= k THEN s ELSE SubSeq(s, Len(s) - k + 1, Len(s))

\* C4: while no undo is performed the undo stack holds the pre-action
\* snapshots of the most recent 50 history-worthy actions, in the order of
\* the actions: never more than 50, and exactly 50 after 50 or more actions.
C4_HistoryBound ==
    /\ Len(undoStack) <= UNDO_LIMIT
    /\ undoStack = lastOf(log, UNDO_LIMIT)
    /\ Len(log) >= UNDO_LIMIT => Len(undoStack) = UNDO_LIMIT

\* 60 history-worthy actions have been performed, the last one in the run
C4_Witness ==
    /\ Len(log) = 60
    /\ Len(undoStack) = UNDO_LIMIT
    /\ budget < MaxHistSteps
    /\ undoStack[1] = log[11]
    /\ undoStack[UNDO_LIMIT] = log[60]

\* C5: the canvas never holds more than 50 items.
C5_AtMostFifty == Len(state.items) <= MAX_IMAGES

\* an image of a batch has been added to a full canvas, the batch has not
\* ended, and the canvas holds 50 items
C5_Witness ==
    /\ last.op = "dropStep"
    /\ last.id # NoId
    /\ uuids > MAX_IMAGES
    /\ Len(state.items) = MAX_IMAGES

\* C6: an add to a canvas of 50 items removes exactly one of them, one that
\* no other item precedes in creation time, keeps the new item, and leaves
\* no selection only if the removed item was the selected one.
C6_EvictsOldest ==
    [][(last'.op \in addEvents /\ last'.id # NoId
            /\ Len(state.items) = MAX_IMAGES) =>
        LET removed == itemIds(state.items) \ itemIds(state'.items)
        IN  /\ Cardinality(removed) = 1
            /\ hasItem(state', last'.id)
            /\ itemIds(state'.items) =
                    (itemIds(state.items) \ removed) \cup {last'.id}
            /\ \A r \in removed : \A i \in 1..Len(state'.items) :
                    itemOf(state.items, r).createdAt <= state'.items[i].createdAt
            /\ state'.selectedId = NoId => state.selectedId \in removed]_vars

\* a paste onto a full canvas has removed the item that is being dragged
C6_Witness ==
    /\ last.op = "pasted"
    /\ Len(state.items) = MAX_IMAGES
    /\ uuids > MAX_IMAGES
    /\ hasItem(state, last.id)
    /\ interaction # NoInteraction
    /\ pressed.items # << >>
    /\ ~hasItem(state, interaction.itemId)

\* ---------------------------------------------------------------------
\* History entries per action
\* ---------------------------------------------------------------------
\* the events that end an action which records history
commitEvents == {"pasted", "dropDone", "Delete", "moveUp", "resizeUp"}

\* this step has put exactly one entry on top of the history
pushedOne ==
    /\ undoStack' # << >>
    /\ undoStack' = pushUndo(undoStack, undoStack'[Len(undoStack')])

\* C11: a paste, a batch drop, a delete, a completed drag and a completed
\* resize each put at most one entry on the history: the step that ends
\* the action (the settled paste, the last file of the batch, the Delete
\* key, the release) leaves the history as it is or pushes exactly one
\* entry, and every other step that is not an undo (the paste event, the
\* drop event, each earlier file of the batch, the press, each pointer
\* move) pushes none.
C11_OneEntryPerAction ==
    [][IF last'.op \in commitEvents
       THEN undoStack' = undoStack \/ pushedOne
       ELSE last'.op \notin undoEvents => undoStack' = undoStack]_vars

\* a batch of two decoded files has ended with one entry on the history
C11_Witness ==
    /\ last.op = "dropDone"
    /\ last.a = 2
    /\ Len(undoStack) = 1
    /\ Len(state.items) = 2

\* ---------------------------------------------------------------------
\* Undo
\* ---------------------------------------------------------------------
\* C12: an undo, by Ctrl+Z or by the undo button, changes neither the
\* canvas state nor the history when the history is empty or a move or
\* resize session is active; otherwise it removes exactly the top entry of
\* the history and the live items, selection, nextZIndex and
\* placementOffset become those of that entry.
C12_UndoPopsTop ==
    [][last'.op \in undoEvents =>
          IF undoStack = << >> \/ interaction # NoInteraction
          THEN state' = state /\ undoStack' = undoStack
          ELSE LET top == undoStack[Len(undoStack)]
               IN  /\ undoStack' = SubSeq(undoStack, 1, Len(undoStack) - 1)
                   /\ state'.items = top.items
                   /\ state'.selectedId = top.selectedId
                   /\ state'.nextZIndex = top.nextZIndex
                   /\ state'.placementOffsetIndex = top.placementOffsetIndex]_vars

\* the second of two pastes has been undone with Ctrl+Z
C12_Witness ==
    /\ last.op = "z"
    /\ noticeMessage.kind = "undone"
    /\ Len(state.items) = 1
    /\ Len(undoStack) = 1

\* Ctrl+Z has been pressed during a move session that has a history
C12_WitnessSession ==
    /\ last.op = "z"
    /\ interaction # NoInteraction
    /\ undoStack # << >>

\* ---------------------------------------------------------------------
\* Shortcuts
\* ---------------------------------------------------------------------
\* C13: while a move or resize session is active the copy shortcut does
\* nothing: Ctrl+C starts no write to the clipboard and leaves the status
\* message as it is.
C13_CopyIdleOnly ==
    [][(last'.op = "c" /\ interaction # NoInteraction)
          => /\ pendingCopies' = pendingCopies
             /\ noticeMessage' = noticeMessage]_vars

\* C14: while an INPUT, a TEXTAREA or an editable element holds the focus,
\* the copy, undo, delete and paste shortcuts are suppressed: none of them
\* changes the items, the selection, the counters or the history, and none
\* of them starts a read of or a write to the clipboard.
C14_ShortcutsSuppressed ==
    [][(last'.op \in {"c", "z", "Delete", "paste"} /\ last'.a = 1)
          => /\ state' = state
             /\ undoStack' = undoStack
             /\ pendingCopies' = pendingCopies
             /\ pendingPastes' = pendingPastes]_vars

\* ---------------------------------------------------------------------
\* Sessions
\* ---------------------------------------------------------------------
\* the item of the active session is no longer on the canvas
sessionItemGone ==
    /\ interaction # NoInteraction
    /\ ~hasItem(state, interaction.itemId)

pointerEvents == {"pointerMove", "moveUp", "resizeUp"}

\* C15: when the item of a move or resize session has left the canvas
\* during the session, the next pointer event, be it a move or a release,
\* ends the session and pushes no history entry.
C15_VanishedItemEndsSilently ==
    [][(sessionItemGone /\ last'.op \in pointerEvents)
          => /\ interaction' = NoInteraction
             /\ undoStack' = undoStack]_vars

\* C16: a release always ends the session, and it pushes the snapshot taken
\* at the press exactly when the items, nextZIndex or placementOffsetIndex
\* at the release differ from that snapshot; a press and release that only
\* changed the selection leaves the history as it was.
C16_ReleaseCommitsChanges ==
    [][last'.op \in {"moveUp", "resizeUp"} =>
          LET start == interaction.startSnapshot
              differs == \/ start.items # state.items
                         \/ start.nextZIndex # state.nextZIndex
                         \/ start.placementOffsetIndex # state.placementOffsetIndex
          IN  /\ interaction' = NoInteraction
              /\ IF differs
                 THEN undoStack' = Append(undoStack, start)
                 ELSE undoStack' = undoStack]_vars

\* a press and release on the unselected topmost image: the selection has
\* changed, the items have not, and the history still holds one entry
C16_Witness ==
    /\ last.op = "moveUp"
    /\ last.a = 0
    /\ pressed.selectedId = NoId
    /\ state.selectedId = last.id
    /\ state.items = pressed.items
    /\ Len(undoStack) = 1

\* a release after a move: the snapshot of the press is on top of the history
C16_WitnessMoved ==
    /\ last.op = "moveUp"
    /\ last.a = 1
    /\ Len(undoStack) = 2
    /\ undoStack[2] = createSnapshot(pressed)

\* ---------------------------------------------------------------------
\* Capture of history entries
\* ---------------------------------------------------------------------
\* this step adds the first image of the batch d
firstAddOf(d) ==
    /\ last'.op \in {"dropStep", "dropDone"}
    /\ last'.id # NoId
    /\ drops[d].added = {}
    /\ last'.ids = {last'.id}

\* C17: the snapshot of a history entry is captured before any mutation of
\* its action, and no mutation of another handler falls between the
\* capture and the first mutation of the action, also for a batch drop
\* whose decode suspends: when a batch adds its first image, the items,
\* nextZIndex and placementOffsetIndex are still those of the snapshot the
\* batch captured, so that undoing the entry of the batch loses no change
\* of another action.
C17_NothingBetweenCaptureAndMutation ==
    [][\A d \in 1..Len(drops) :
          firstAddOf(d) =>
              toUndoComparable(createSnapshot(state))
                  = toUndoComparable(drops[d].beforeSnapshot)]_vars

\* ---------------------------------------------------------------------
\* Copy and paste outcomes
\* ---------------------------------------------------------------------
copyEvents == {"c", "copy", "copyResume"}

\* C18: a copy attempt, started by the shortcut or the button, never
\* changes the canvas state, the history or the session, whether the write
\* succeeds, fails with any reason or none, or throws; of the program
\* state it changes the status message only.
C18_CopyLeavesCanvas ==
    [][last'.op \in copyEvents =>
          /\ state' = state
          /\ undoStack' = undoStack
          /\ interaction' = interaction
          /\ isDragActive' = isDragActive]_vars

\* a write to the clipboard has failed with write_failed; the image is
\* still there and selected
C18_Witness ==
    /\ last.op = "copyResume"
    /\ noticeMessage.kind = "copyWriteFailed"
    /\ Len(state.items) = 1
    /\ state.selectedId = state.items[1].id

\* a read of the clipboard that gave no image has settled
failedReads == {"empty", "throw"}

\* C19 as stated: a paste whose clipboard read returns nothing or throws
\* leaves the items, selection, counters and history unchanged and is
\* reported as "nothing to paste", not as an error.
C19_Original ==
    [][last'.op \in failedReads =>
          /\ state' = state
          /\ undoStack' = undoStack
          /\ noticeMessage'.kind = "nothingToPaste"]_vars

\* C19: a paste whose clipboard read returns nothing or throws leaves the
\* items, selection, counters and history unchanged; the empty read is
\* reported as "nothing to paste", the read that throws as a failed paste.
C19_EmptyPaste ==
    [][last'.op \in failedReads =>
          /\ state' = state
          /\ undoStack' = undoStack
          /\ noticeMessage'.kind = IF last'.op = "empty"
                                   THEN "nothingToPaste"
                                   ELSE "pasteFailed"]_vars

\* a paste whose read threw has been reported as failed, with the image
\* and the history entry of the first paste untouched
C19_Witness ==
    /\ last.op = "throw"
    /\ noticeMessage.kind = "pasteFailed"
    /\ Len(state.items) = 1
    /\ Len(undoStack) = 1

\* ---------------------------------------------------------------------
\* Counts of a file drop
\* ---------------------------------------------------------------------
imageCount(fileList) ==
    Cardinality({i \in 1..Len(fileList) : isImageType(fileList[i])})

dropSteps == {"dropStep", "dropDone"}

\* C20: of a file drop only the files whose media type begins with
\* "image/" are attempted, and the others count neither as added nor as
\* failed: a drop without an image file starts no batch, every file a
\* batch attempts is an image file, each attempt adds one item or none,
\* and when the batch ends successCount + failureCount is the number of
\* image files of the drop and successCount the number of items added.
C20_OnlyImagesCounted ==
    [][/\ (last'.op = "drop" /\ imageCount(last'.files) = 0) => drops' = drops
       /\ last'.op \in dropSteps =>
            /\ \E d \in 1..Len(drops) :
                  /\ drops[d].fileList = last'.files
                  /\ isImageType(drops[d].files[drops[d].index])
            /\ itemIds(state'.items) \ itemIds(state.items)
                  = IF last'.id = NoId THEN {} ELSE {last'.id}
            /\ Cardinality(last'.ids) = last'.a
            /\ last'.a + last'.b <= imageCount(last'.files)
       /\ last'.op = "dropDone" =>
            last'.a + last'.b = imageCount(last'.files)]_vars

\* a drop of a broken image, a text file and two images has ended with two
\* items added and one failure
C20_Witness ==
    /\ last.op = "dropDone"
    /\ last.files = <<"bad", "txt", "img", "img">>
    /\ last.a = 2
    /\ last.b = 1
    /\ Len(state.items) = 2

\* ---------------------------------------------------------------------
\* Drops that add nothing, hidden tab
\* ---------------------------------------------------------------------
\* C21: a drop in which no file is added, because the batch holds no image
\* file or because every image file of it fails to decode, leaves the
\* items, the selection, nextZIndex, placementOffsetIndex and the history
\* as they were: the drop event changes none of them, and neither does any
\* step of a batch that has added nothing so far, its last step included.
C21_EmptyDropChangesNothing ==
    [][(\/ last'.op = "drop"
        \/ last'.op \in dropSteps /\ last'.a = 0)
          => /\ state' = state
             /\ undoStack' = undoStack]_vars

\* a drop of two broken images and a text file has ended with nothing
\* added; the first image and the one history entry are still there
C21_Witness ==
    /\ last.op = "dropDone"
    /\ last.files = <<"bad", "txt", "bad">>
    /\ last.a = 0
    /\ last.b = 2
    /\ noticeMessage.kind = "dropNoneAdded"
    /\ Len(state.items) = 1
    /\ Len(undoStack) = 1

\* the events of the window and of the canvas that the hidden tab ignores
guardedEvents ==
    {"paste", "c", "z", "Delete", "drop", "startMove", "startResize",
     "clearSelection"}

\* C23: switching between the Clipboard and the Tasks tab leaves the items,
\* the selection, the counters and the history unchanged, and while the
\* Clipboard tab is hidden a paste, a shortcut, a file drop or a pointer
\* press changes none of them and starts nothing that would: no clipboard
\* read or write, no batch, no session.
C23_HiddenTabIsInert ==
    [][/\ last'.op = "switchTab" =>
            /\ state' = state
            /\ undoStack' = undoStack
       /\ (~active /\ last'.op \in guardedEvents) =>
            /\ state' = state
            /\ undoStack' = undoStack
            /\ pendingPastes' = pendingPastes
            /\ pendingCopies' = pendingCopies
            /\ drops' = drops
            /\ interaction' = interaction]_vars

\* the Delete key has been pressed on the hidden tab with an image
\* selected, and the image is still on the canvas
C23_Witness ==
    /\ ~active
    /\ last.op = "Delete"
    /\ last.id # NoId
    /\ state.selectedId = last.id
    /\ hasItem(state, last.id)

\* ---------------------------------------------------------------------
\* Snapshots
\* ---------------------------------------------------------------------
\* the snapshots in use: the entries of the history and the snapshot of
\* the active session
heldSnapshots(h) ==
    {h.stack[i] : i \in 1..Len(h.stack)}
        \cup (IF h.session = NoSession THEN {} ELSE {h.session.startSnapshot})

\* every snapshot in use still has the content it was captured with
snapshotsIntact(h) ==
    \A ref \in heldSnapshots(h) : valueOf(h, ref) = h.taken[ref]

\* the handlers that end by pushing an entry, and the undo
stackEvents == {"pasted", "Delete", "moveUp", "undo"}

\* C22: a snapshot, once captured as a history entry or as the snapshot of
\* a session, is never changed by a later mutation of the live state (add,
\* delete, select, move), also after an undo: every snapshot in use keeps
\* the content it was captured with, an entry pushed by a paste or a delete
\* holds the state from before that handler, and the stack itself changes
\* only by a push on top or by the undo taking the top entry off.
C22_SnapshotsAreCopies ==
    [][/\ snapshotsIntact(heap')
       /\ \A ref \in heldSnapshots(heap) \cap heldSnapshots(heap') :
             valueOf(heap', ref) = valueOf(heap, ref)
       /\ heap'.stack # heap.stack =>
             /\ last'.op \in stackEvents
             /\ IF last'.op = "undo"
                THEN heap'.stack = SubSeq(heap.stack, 1, Len(heap.stack) - 1)
                ELSE /\ Len(heap'.stack) = Len(heap.stack) + 1
                     /\ SubSeq(heap'.stack, 1, Len(heap.stack)) = heap.stack
       /\ (last'.op \in {"pasted", "Delete"} /\ heap'.stack # heap.stack) =>
             valueOf(heap', heap'.stack[Len(heap'.stack)]) = liveState]_vars

\* an image was pasted, moved and the move undone, and a second image
\* pasted: two entries are on the stack and the live state differs from both
C22_Witness ==
    /\ Len(heap.stack) = 2
    /\ last.op = "pasted"
    /\ last.prev.op = "undo"
    /\ Len(liveState.items) = 2
    /\ \A i \in 1..2 : valueOf(heap, heap.stack[i]) # liveState

\* ---------------------------------------------------------------------
\* Always on top
\* ---------------------------------------------------------------------
\* the text of a preferences file that stores the boolean b
storedAs(b) ==
    <<"{", "alwaysOnTop", ":", IF b THEN "true" ELSE "false", "}">>

\* C24: when setAlwaysOnTop(e) has completed, the preferences file stores
\* e, and a launch that follows the completed call creates the window with
\* always-on-top equal to e; a launch creates the window pinned only when
\* the file stores the boolean true, so a missing file, a text that is no
\* JSON and a stored value that is no boolean all give false.
C24_PinIsPersisted ==
    [][/\ last'.op = "setAlwaysOnTop" =>
            shell'.preferencesFile = storedAs(last'.a = 1)
       /\ last'.op = "launch" =>
            /\ shell'.mainWindow.alwaysOnTop
                  = (shell.preferencesFile = storedAs(TRUE))
            /\ shell.lastSet.completed =>
                  shell'.mainWindow.alwaysOnTop = shell.lastSet.e]_vars

\* the pin was switched on over a file that stored no boolean, the
\* application was closed and launched again with the window pinned
C24_Witness ==
    /\ last.op = "launch"
    /\ last.prev.op = "quit"
    /\ shell.lastSet = [completed |-> TRUE, e |-> TRUE]
    /\ shell.mainWindow.alwaysOnTop = TRUE


\* the list a stored text holds, read element by element
storedTasks(raw) ==
    [i \in 1..Len(raw.elements) |->
        [id |-> raw.elements[i].id.value, text |-> raw.elements[i].text.value,
         createdAt |-> raw.elements[i].createdAt.value]]

inSync(sh) ==
    /\ sh.localStorage # NoRaw
    /\ sh.localStorage.json = "array"
    /\ \A i \in 1..Len(sh.localStorage.elements) :
          /\ sh.localStorage.elements[i].type = "object"
          /\ isTaskItem(sh.localStorage.elements[i])
    /\ storedTasks(sh.localStorage) = sh.tasks

\* C25: after every addition and every check-off of a task the stored list
\* is the list in memory: a checked task is removed at once and no other
\* task is, an added task with a non-blank text stands at the head with
\* the trimmed text, an add with a blank text changes neither list, and a
\* reload gives the tasks that were shown.
C25_TasksArePersisted ==
    [][/\ last'.op \in {"addTask", "completeTask"} =>
             /\ inSync(shell')
             /\ loadTasks(shell'.localStorage) = shell'.tasks
       /\ last'.op = "completeTask" =>
             /\ \A i \in 1..Len(shell'.tasks) : shell'.tasks[i].id # last'.id
             /\ shell'.tasks =
                   SelectSeq(shell.tasks, LAMBDA task : task.id # last'.id)
             /\ Len(shell'.tasks) = Len(shell.tasks) - 1
       /\ (last'.op = "addTask" /\ trim(shell.draftTask) # << >>) =>
             /\ Len(shell'.tasks) = Len(shell.tasks) + 1
             /\ Tail(shell'.tasks) = shell.tasks
             /\ Head(shell'.tasks).text = trim(shell.draftTask)
       /\ (last'.op = "addTask" /\ trim(shell.draftTask) = << >>) =>
             /\ shell'.tasks = shell.tasks
             /\ shell'.localStorage = shell.localStorage
       /\ (last'.op = "mount" /\ shell.mounted) =>
             shell'.tasks = shell.tasks]_vars

\* a task was added to a list, another was checked off, and the tab was
\* loaded again
C25_Witness ==
    /\ last.op = "mount"
    /\ last.prev.op = "completeTask"
    /\ Len(shell.tasks) >= 1
    /\ \E i \in 1..Len(shell.tasks) : shell.tasks[i].text = <<"a">>

\* a blank text was submitted while tasks were listed
C25_WitnessBlank ==
    /\ last.op = "addTask"
    /\ last.id = NoId
    /\ shell.tasks # << >>


\* the dragged edge or corner of the running resize session
dragged(letter) == includes(interaction.handle, letter)

\* the edge of the item opposite to the dragged one is where it was at the
\* press, on each axis that the handle names
oppositeKept(after) ==
    /\ dragged("e") => after.x = interaction.startX
    /\ dragged("w") => after.x + after.width =
                          interaction.startX + interaction.startWidth
    /\ dragged("s") => after.y = interaction.startY
    /\ dragged("n") => after.y + after.height =
                          interaction.startY + interaction.startHeight

\* C26: a resize by an edge handle changes only the dimension of the handle
\* (e and w leave y and height, n and s leave x and width) and keeps the
\* opposite edge at its start coordinate, also when the minimum size of 24
\* or the canvas boundary limits it; dragging e past the canvas gives the
\* width 2000 - x with x unchanged.
C26_EdgeResizeOneAxis ==
    [][(sessionMove("resize") /\ ~isCornerHandle(interaction.handle)) =>
        LET after == itemOf(state'.items, interaction.itemId)
        IN  /\ interaction.handle \in {"e", "w"} =>
                  /\ after.y = interaction.startY
                  /\ after.height = interaction.startHeight
            /\ interaction.handle \in {"n", "s"} =>
                  /\ after.x = interaction.startX
                  /\ after.width = interaction.startWidth
            /\ oppositeKept(after)
            /\ after.width >= MIN_SIZE /\ after.height >= MIN_SIZE
            /\ (/\ interaction.handle = "e"
                /\ interaction.startX + interaction.startWidth + last'.a
                     > CANVAS_WIDTH) =>
                  /\ after.x = interaction.startX
                  /\ after.width = CANVAS_WIDTH - after.x]_vars

\* the e handle was dragged past the right edge of the canvas
C26_Witness ==
    /\ last.op = "pointerMove"
    /\ interaction # NoInteraction
    /\ interaction.mode = "resize"
    /\ interaction.handle = "e"
    /\ last.a = 2000
    /\ hasItem(state, interaction.itemId)
    /\ LET item == itemOf(state.items, interaction.itemId)
       IN  /\ item.x = interaction.startX
           /\ item.x > 0
           /\ item.width = CANVAS_WIDTH - item.x

\* the w handle was dragged past the right edge of the item, which is at its
\* minimum width
C26_WitnessMinimum ==
    /\ last.op = "pointerMove"
    /\ interaction # NoInteraction
    /\ interaction.mode = "resize"
    /\ interaction.handle = "w"
    /\ last.a > interaction.startWidth
    /\ hasItem(state, interaction.itemId)
    /\ itemOf(state.items, interaction.itemId).width = MIN_SIZE
    /\ interaction.startWidth > MIN_SIZE

\* C27: a resize by a corner handle keeps the corner opposite to the handle
\* at its start coordinates (se: x and y; nw: x + width and y + height; ne
\* and sw accordingly), also when the minimum size or the canvas boundary
\* limits it.
C27_CornerResizeAnchored ==
    [][(sessionMove("resize") /\ isCornerHandle(interaction.handle)) =>
        LET after == itemOf(state'.items, interaction.itemId)
        IN  /\ oppositeKept(after)
            /\ after.width >= MIN_SIZE /\ after.height >= MIN_SIZE
            /\ 0 <= after.x /\ after.x + after.width <= CANVAS_WIDTH
            /\ 0 <= after.y /\ after.y + after.height <= CANVAS_HEIGHT]_vars

\* the nw handle was dragged far beyond the top left corner of the canvas
C27_Witness ==
    /\ last.op = "pointerMove"
    /\ interaction # NoInteraction
    /\ interaction.mode = "resize"
    /\ interaction.handle = "nw"
    /\ last.a = -2000 /\ last.b = -2000
    /\ hasItem(state, interaction.itemId)
    /\ LET item == itemOf(state.items, interaction.itemId)
       IN  /\ item.width > interaction.startWidth
           /\ item.x = 0 \/ item.y = 0

\* the sw handle was dragged inwards until the minimum size held it
C27_WitnessMinimum ==
    /\ last.op = "pointerMove"
    /\ interaction # NoInteraction
    /\ interaction.mode = "resize"
    /\ interaction.handle = "sw"
    /\ hasItem(state, interaction.itemId)
    /\ LET item == itemOf(state.items, interaction.itemId)
       IN  /\ item.width = MIN_SIZE \/ item.height = MIN_SIZE
           /\ item.width < interaction.startWidth


\* C28: for every natural size the longer side of the initial size lies in
\* [80, 420]: 420 if the longer natural side is above 420, 80 if it is below
\* 80, the longer natural side itself otherwise; both sides are at least 24.
C28_InitialSizeInRange ==
    shell.sized =>
        LET longest == Max2(shell.naturalWidth, shell.naturalHeight)
            longer == Max2(shell.size.width, shell.size.height)
            scaledLongest == IF shell.naturalWidth >= shell.naturalHeight
                             THEN shell.size.width ELSE shell.size.height
        IN  /\ INITIAL_MIN_SIDE <= longer /\ longer <= INITIAL_MAX_SIDE
            /\ scaledLongest = longer
            /\ longest > INITIAL_MAX_SIDE => longer = INITIAL_MAX_SIDE
            /\ longest < INITIAL_MIN_SIDE => longer = INITIAL_MIN_SIDE
            /\ (INITIAL_MIN_SIDE <= longest /\ longest <= INITIAL_MAX_SIDE) =>
                  longer = longest
            /\ shell.size.width >= MIN_SIZE
            /\ shell.size.height >= MIN_SIZE

\* a small image was scaled up; its short side came out below 24 and was
\* raised to it
C28_Witness ==
    /\ shell.sized
    /\ shell.naturalWidth = 25
    /\ shell.naturalHeight = 2
    /\ shell.size = [width |-> INITIAL_MIN_SIDE, height |-> MIN_SIZE]

\* a large image was scaled down
C28_WitnessLarge ==
    /\ shell.sized
    /\ shell.naturalWidth = 839
    /\ shell.naturalHeight = 1680
    /\ shell.size = [width |-> 210, height |-> INITIAL_MAX_SIDE]


\* a press with the primary button on an item of the visible tab
primaryPress ==
    /\ last'.op \in {"startMove", "startResize"}
    /\ last'.a = 0
    /\ active

\* C29: right after a press with the primary button on an item, on its body
\* or on a resize handle, the item is selected and its z-index is above that
\* of every other item; an item that was not topmost has received the old
\* value of nextZIndex, and the counter has grown by one.
C29_PressSelectsAndRaises ==
    [][primaryPress =>
        LET before == itemOf(state.items, last'.id)
            after == itemOf(state'.items, last'.id)
        IN  /\ state'.selectedId = last'.id
            /\ \A i \in 1..Len(state'.items) :
                  state'.items[i].id # last'.id =>
                     /\ state'.items[i].zIndex < after.zIndex
                     /\ state'.items[i] = itemOf(state.items, state'.items[i].id)
            /\ before.zIndex < maxZIndex(state.items) =>
                  /\ after.zIndex = state.nextZIndex
                  /\ state'.nextZIndex = state.nextZIndex + 1]_vars

\* an item below another one has been pressed on its body
C29_Witness ==
    /\ last.op = "startMove"
    /\ last.a = 0
    /\ interaction # NoInteraction
    /\ hasItem(pressed, last.id)
    /\ itemOf(pressed.items, last.id).zIndex < maxZIndex(pressed.items)
    /\ state.selectedId = last.id
    /\ state.nextZIndex = pressed.nextZIndex + 1

\* a handle of the selected item has been pressed while another item exists
C29_WitnessHandle ==
    /\ last.op = "startResize"
    /\ last.a = 0
    /\ interaction # NoInteraction
    /\ Len(state.items) >= 2
    /\ state.selectedId = last.id


\* the Delete key reached the handler's key tests
deleteHandled(e) == e.op = "Delete" /\ e.a = 0

\* what the Delete key does to the canvas and to the history
deleteRemovesSelected ==
    /\ (deleteHandled(last') /\ active /\ state.selectedId # NoId) =>
          /\ ~hasItem(state', state.selectedId)
          /\ state'.items =
                SelectSeq(state.items, LAMBDA item : item.id # state.selectedId)
          /\ Len(state'.items) = Len(state.items) - 1
          /\ state'.selectedId = NoId
          /\ pushedOne
          /\ undoStack'[Len(undoStack')] = createSnapshot(state)
          /\ applySnapshot(undoStack'[Len(undoStack')]) = state
    /\ (deleteHandled(last') /\ active /\ state.selectedId = NoId) =>
          /\ state' = state
          /\ undoStack' = undoStack
          /\ noticeMessage' = noticeMessage

\* an undo, by key or by button, follows a Delete that removed an item
undoAfterDelete ==
    /\ deleteHandled(last)
    /\ last.id # NoId
    /\ active
    /\ last'.op \in undoEvents
    /\ last'.a = 0

\* the item that the Delete removed is back as it was, and selected
deletedRestored ==
    /\ createSnapshot(state') = log[Len(log)]
    /\ hasItem(state', last.id)
    /\ state'.selectedId = last.id
    /\ itemOf(state'.items, last.id) = itemOf(log[Len(log)].items, last.id)

\* C30 as stated: the Delete key with a selected item removes that item and
\* no other, leaves the other items as they are, clears the selection and
\* pushes the state before the removal as one history entry, so that an
\* undo right after it brings the item back with its geometry, its z-index
\* and the selection; without a selection the Delete key changes nothing.
C30_Original ==
    [][/\ deleteRemovesSelected
       /\ undoAfterDelete => deletedRestored]_vars

\* C30, amended: as stated, where the undo right after the Delete brings
\* the item back if no move or resize session is active at the undo; an
\* undo during a session changes nothing.
C30_DeleteAndUndo ==
    [][/\ deleteRemovesSelected
       /\ undoAfterDelete =>
             IF interaction = NoInteraction
             THEN deletedRestored
             ELSE state' = state /\ undoStack' = undoStack]_vars

\* one of two items was deleted and the undo that followed brought it back
C30_Witness ==
    /\ last.op \in undoEvents
    /\ interaction = NoInteraction
    /\ last.prev.op = "Delete"
    /\ last.prev.id # NoId
    /\ last.prev.a = 0
    /\ Len(state.items) = 2
    /\ state.selectedId = last.prev.id
    /\ hasItem(state, last.prev.id)

\* an item was deleted while it was dragged, and the undo key was pressed
\* before the release
C30_WitnessSession ==
    /\ last.op = "z"
    /\ last.a = 0
    /\ last.prev.op = "Delete"
    /\ last.prev.id # NoId
    /\ last.prev.a = 0
    /\ interaction # NoInteraction
    /\ ~hasItem(state, last.prev.id)

\* the Delete key was pressed with no selection
C30_WitnessNone ==
    /\ deleteHandled(last)
    /\ last.id = NoId
    /\ state.items # << >>


\* the payload names the fixed format and carries a non-blank base64 text
wellFormed(payload) ==
    /\ payload # NoPayload
    /\ payload.mimeType = <<"image", "png">>
    /\ payload.base64.type = "string"
    /\ \E i \in 1..Len(payload.base64.text) : payload.base64.text[i] # " "

\* C31: writeClipboardImage answers ok only after clipboard.writeImage has
\* returned and the read-back of the clipboard is not empty; it answers
\* invalid_payload for a wrong format tag or an empty base64 text and
\* decode_failed for a text that decodes to no image, in both cases without
\* a write to the clipboard; it answers write_failed when the write throws
\* or the read-back is empty.
C31_SinkResults ==
    [][last'.op = "writeClipboardImage" =>
        LET result == shell'.result
            called == shell'.writeCalls = shell.writeCalls + 1
            returned == shell'.writeReturns = shell.writeReturns + 1
        IN  /\ result.ok =>
                  /\ called /\ returned
                  /\ shell'.readBack = "image"
                  /\ ~shell'.clipboard.isEmpty
            /\ ~result.ok =>
                  result.reason \in {"invalid_payload", "decode_failed",
                                     "write_failed"}
            /\ result.reason = "invalid_payload" <=> ~wellFormed(shell'.payload)
            /\ result.reason \in {"invalid_payload", "decode_failed"} =>
                  /\ ~called
                  /\ shell'.writeReturns = shell.writeReturns
                  /\ shell'.clipboard = shell.clipboard
            /\ result.reason = "write_failed" <=>
                  /\ called
                  /\ ~returned \/ shell'.readBack # "image"
            /\ (called /\ (~returned \/ shell'.readBack = "empty")) =>
                  result.reason = "write_failed"]_vars

\* an image was written over the image of another program and read back
C31_Witness ==
    /\ last.op = "writeClipboardImage"
    /\ last.prev.op = "osCopy"
    /\ shell.result = Ok
    /\ shell.clipboard = imageOf(<<"P">>)
    /\ shell.payload.base64.text = <<" ", "P", " ">>

\* a text of no image was refused while another program's image was on the
\* clipboard
C31_WitnessDecode ==
    /\ last.op = "writeClipboardImage"
    /\ shell.result = failure("decode_failed")
    /\ shell.clipboard = imageOf(<<"O">>)
    /\ shell.writeCalls = 0

\* the write returned and the read-back was empty
C31_WitnessReadBack ==
    /\ last.op = "writeClipboardImage"
    /\ shell.result = failure("write_failed")
    /\ shell.readBack = "empty"


\* C33: in every reachable state the selected id is none or the id of an
\* item on the canvas: no delete, eviction, undo, ended session or add that
\* falls between other events leaves a selection of an item that is gone.
C33_SelectionExists ==
    state.selectedId # NoId => hasItem(state, state.selectedId)

\* the dragged item was deleted, the pointer moved and the session ended,
\* and the undo brought the item and its selection back
C33_Witness ==
    /\ last.op \in undoEvents
    /\ last.prev.op = "pointerMove"
    /\ interaction = NoInteraction
    /\ state.selectedId # NoId
    /\ hasItem(state, state.selectedId)
    /\ Len(state.items) = MAX_IMAGES

\* an add has evicted an item of a full canvas while a drop was decoding
C33_WitnessEviction ==
    /\ last.op = "pasted"
    /\ uuids > MAX_IMAGES
    /\ Len(state.items) = MAX_IMAGES
    /\ drops # << >>
    /\ state.selectedId = last.id

\* C34: in every reachable state, also after an undo and between the adds
\* of a batch drop, the z-indices of the items are pairwise distinct and
\* each is below nextZIndex, so that a z-index given out next is in front
\* of every item.
C34_StackingDistinct ==
    /\ \A i, j \in 1..Len(state.items) :
          i # j => state.items[i].zIndex # state.items[j].zIndex
    /\ \A i \in 1..Len(state.items) :
          state.items[i].zIndex < state.nextZIndex

\* the first image of a batch was added right after an undo that fell
\* between the drop and its first add
C34_Witness ==
    /\ last.op = "dropStep"
    /\ last.id # NoId
    /\ last.prev.op \in undoEvents
    /\ hasItem(state, last.id)
    /\ drops # << >>

\* an item below another one was raised by a press
C34_WitnessRaised ==
    /\ last.op = "startMove"
    /\ Len(state.items) >= 2
    /\ hasItem(pressed, last.id)
    /\ itemOf(pressed.items, last.id).zIndex < maxZIndex(pressed.items)
    /\ itemOf(state.items, last.id).zIndex = pressed.nextZIndex


\* no session is active, no clipboard read is awaited, no drop is decoding
quiet ==
    /\ interaction = NoInteraction
    /\ pendingPastes = 0
    /\ drops = << >>

\* C32: after k <= 50 actions that record history (paste, batch drop,
\* delete, completed drag, completed resize), with their events in any
\* order, k undos in a row bring the items, nextZIndex and the placement
\* offset back to what they were before the first of the actions, each undo
\* taking back the latest action not yet undone.  Stated for the actions
\* since the start of the program: the undo that empties the history, with
\* nothing in progress, leaves the canvas as it was at the start.
C32_UndoAllRestoresStart ==
    [][(/\ last'.op \in undoEvents
        /\ quiet
        /\ undoStack # << >>
        /\ undoStack' = << >>) =>
          /\ state'.items = EmptyState.items
          /\ state'.nextZIndex = EmptyState.nextZIndex
          /\ state'.placementOffsetIndex = EmptyState.placementOffsetIndex]_vars

====
